---- MODULE Spec2Model ----
(***************************************************************************)
(* Model of the LLM model registry: the parser (transformModels,           *)
(* buildRegistry), the fetcher with its three-stage fallback chain         *)
(* (fetchRegistryWithFallback) and the React hook useModelRegistry with    *)
(* its localStorage cache.                                                 *)
(*                                                                         *)
(* Conventions.  A JavaScript string whose characters matter is a sequence *)
(* of one-character strings.  null/undefined is the record Null.  A Date   *)
(* is its epoch value in milliseconds, with InvalidDate for the NaN date.  *)
(* An ISO date string is the record [iso |-> t].  A call that may raise    *)
(* yields Ok(v) or Throw.                                                  *)
(***************************************************************************)
EXTENDS Integers, Sequences, FiniteSets, TLC

----------------------------------------------------------------------------
(* Bounds of the model *)

\* the clock ranges over 0 and, for each of MaxDays cache lifetimes, the last
\* millisecond before the lifetime ends and the millisecond at which it ends
MaxDays == 1
\* number of fallback chains the hook instances may start, all together
MaxChains == 2
\* longest list of raw records handed to the parser by a direct call
MaxRaws == 2
\* longest pricing string handed to parseFloat
MaxPriceLen == 2
\* longest list of models handed to queryModels
MaxModels == 2
\* longest query string handed to findModel
MaxQueryLen == 3

----------------------------------------------------------------------------
(* Program constants *)

REGISTRY_VERSION == 2
CACHE_DURATION_MS == 86400000

Tiers == {"tiny", "small", "medium", "large", "massive"}
Sources == {"api", "snapshot", "fallback"}

----------------------------------------------------------------------------
(* JavaScript values *)

Null == [null |-> TRUE]
Ok(v) == [ok |-> TRUE, value |-> v]
Throw == [ok |-> FALSE, value |-> Null]

\* the value undefined of an optional field or option
Undefined == [kind |-> "absent"]

\* s.includes(sub)
includes(s, sub) ==
  \E i \in 0..(Len(s) - Len(sub)) : SubSeq(s, i + 1, i + Len(sub)) = sub

InvalidDate == -1
\* Date.prototype.toISOString and new Date(string)
ToISOString(t) == [iso |-> t]
ParseDate(s) == IF "iso" \in DOMAIN s THEN s.iso ELSE InvalidDate
\* relational operators on dates: every comparison with NaN is false
DateLt(a, b) == a # InvalidDate /\ b # InvalidDate /\ a < b
DateGe(a, b) == a # InvalidDate /\ b # InvalidDate /\ a >= b

\* JSON.stringify / JSON.parse of a registry: the text of a serialised value
\* is [json |-> v]; any other text does not parse
JsonStringify(v) == [json |-> v]
JsonParse(text) == IF "json" \in DOMAIN text THEN Ok(text.json) ELSE Throw

----------------------------------------------------------------------------
(* Parser: src/src/parser.ts *)

RECURSIVE IndexOfSlash(_, _)
IndexOfSlash(s, i) ==
  IF i > Len(s) THEN 0
  ELSE IF s[i] = "/" THEN i
  ELSE IndexOfSlash(s, i + 1)

\* modelId.split('/')[0] || 'unknown'
parseProviderId(modelId) ==
  LET k == IndexOfSlash(modelId, 1)
      first == IF k = 0 THEN modelId ELSE SubSeq(modelId, 1, k - 1)
  IN IF first = <<>> THEN <<"u","n","k","n","o","w","n">> ELSE first

\* modelId.split('/').slice(1).join('/') || modelId
parseModelSlug(modelId) ==
  LET k == IndexOfSlash(modelId, 1)
      rest == IF k = 0 THEN <<>> ELSE SubSeq(modelId, k + 1, Len(modelId))
  IN IF rest = <<>> THEN modelId ELSE rest

\* A JavaScript number that a decimal string denotes is the record
\* [nan, n, e] standing for n / 10^e, with n not divisible by 10 unless e = 0;
\* NaN has nan = TRUE.  Both zeros are [n |-> 0, e |-> 0] (-0 === 0).
NaN == [nan |-> TRUE, n |-> 0, e |-> 0]

RECURSIVE Num(_, _)
Num(n, e) ==
  IF n = 0 THEN [nan |-> FALSE, n |-> 0, e |-> 0]
  ELSE IF e > 0 /\ n % 10 = 0 THEN Num(n \div 10, e - 1)
  ELSE [nan |-> FALSE, n |-> n, e |-> e]

Zero == Num(0, 0)

DigitChars == <<"0", "1", "2", "3", "4", "5", "6", "7", "8", "9">>
IsDigit(c) == \E d \in 1..10 : DigitChars[d] = c
DigitValue(c) == (CHOOSE d \in 1..10 : DigitChars[d] = c) - 1

\* the index after the run of digits that starts at i
RECURSIVE DigitRunEnd(_, _)
DigitRunEnd(s, i) ==
  IF i <= Len(s) /\ IsDigit(s[i]) THEN DigitRunEnd(s, i + 1) ELSE i

\* the natural number written by s[i..j-1], continuing the value acc
RECURSIVE DigitsValue(_, _, _, _)
DigitsValue(s, i, j, acc) ==
  IF i >= j THEN acc ELSE DigitsValue(s, i + 1, j, acc * 10 + DigitValue(s[i]))

RECURSIVE SkipWhite(_, _)
SkipWhite(s, i) ==
  IF i <= Len(s) /\ s[i] = " " THEN SkipWhite(s, i + 1) ELSE i

\* the literal with integer digits s[i0..i1-1] and fraction digits s[f0..f1-1]
DecimalValue(s, neg, i0, i1, f0, f1, mant) ==
  IF i1 = i0 /\ f1 = f0 THEN NaN
  ELSE Num(IF neg THEN 0 - mant ELSE mant, f1 - f0)

\* the fraction after the integer digits s[i0..i1-1], when a point follows
FractionFrom(s, neg, i0, i1, f0, f1) ==
  DecimalValue(s, neg, i0, i1, f0, f1, DigitsValue(s, f0, f1, DigitsValue(s, i0, i1, 0)))

PointFrom(s, neg, i0, i1, hasPoint) ==
  IF hasPoint THEN FractionFrom(s, neg, i0, i1, i1 + 1, DigitRunEnd(s, i1 + 1))
  ELSE FractionFrom(s, neg, i0, i1, i1, i1)

IntegerFrom(s, neg, i0, i1) ==
  PointFrom(s, neg, i0, i1, i1 <= Len(s) /\ s[i1] = ".")

SignFrom(s, start, signed) ==
  IntegerFrom(s, signed /\ s[start] = "-", IF signed THEN start + 1 ELSE start,
              DigitRunEnd(s, IF signed THEN start + 1 ELSE start))

LiteralFrom(s, start) ==
  SignFrom(s, start, start <= Len(s) /\ s[start] \in {"-", "+"})

\* parseFloat: leading white space is skipped, then the longest prefix that
\* is a decimal literal (sign, digits, point, digits) is converted; NaN when
\* that prefix has no digit.  Exponents and Infinity are not among the inputs.
parseFloat(s) == LiteralFrom(s, SkipWhite(s, 1))

\* x || 0 for a number x: NaN and zero are falsy
OrZero(x) == IF x.nan \/ x.n = 0 THEN Zero ELSE x

\* x * 1_000_000
TimesMillion(x) ==
  IF x.nan THEN NaN
  ELSE IF x.e >= 6 THEN Num(x.n, x.e - 6)
  ELSE Num(x.n * 10 ^ (6 - x.e), 0)

\* variant: free as soon as one of the two costs is zero
PerMillion_either(promptPerToken, completionPerToken) ==
  [promptPerMillion |-> TimesMillion(promptPerToken),
   completionPerMillion |-> TimesMillion(completionPerToken),
   isFree |-> (promptPerToken = Zero \/ completionPerToken = Zero)]

parsePricing_either(pricing) ==
  PerMillion_either(OrZero(parseFloat(pricing.prompt)),
                    OrZero(parseFloat(pricing.completion)))

\* the record parsePricing returns for the two per-token costs
PerMillion(promptPerToken, completionPerToken) ==
  [promptPerMillion |-> TimesMillion(promptPerToken),
   completionPerMillion |-> TimesMillion(completionPerToken),
   isFree |-> (promptPerToken = Zero /\ completionPerToken = Zero)]

\* the core pricing; the optional costs are absent from the inputs
parsePricing(pricing) ==
  PerMillion(OrZero(parseFloat(pricing.prompt)),
             OrZero(parseFloat(pricing.completion)))

\* variant: the upper bound of each tier is inclusive
getSizeTier_inclusive(contextLength) ==
  IF contextLength <= 8000 THEN "tiny"
  ELSE IF contextLength <= 32000 THEN "small"
  ELSE IF contextLength <= 128000 THEN "medium"
  ELSE IF contextLength <= 500000 THEN "large"
  ELSE "massive"

getSizeTier(contextLength) ==
  IF contextLength < 8000 THEN "tiny"
  ELSE IF contextLength < 32000 THEN "small"
  ELSE IF contextLength < 128000 THEN "medium"
  ELSE IF contextLength < 500000 THEN "large"
  ELSE "massive"

\* The optional fields of a raw record come from JSON and may hold any JSON
\* value: each kind of value has its own field for what it carries.
JsonNull == [kind |-> "null"]
JsonNumber(n) == [kind |-> "number", num |-> n]
JsonString(s) == [kind |-> "string", str |-> s]
JsonBool(b) == [kind |-> "boolean", bool |-> b]
\* an array of strings
JsonArray(l) == [kind |-> "array", elems |-> l]
JsonObject(f) == [kind |-> "object", obj |-> f]

\* raw.name for an optional field: undefined when the record has no such field
Field(raw, name) == IF name \in DOMAIN raw THEN raw[name] ELSE Undefined

\* v?.name: undefined for null and undefined, and for a value that is not an
\* object with that field
Member(v, name) == IF v.kind = "object" THEN Field(v.obj, name) ELSE Undefined

\* the truthiness of a JSON value
ToBoolean(v) ==
  CASE v.kind = "absent" -> FALSE
    [] v.kind = "null" -> FALSE
    [] v.kind = "number" -> v.num # 0
    [] v.kind = "string" -> v.str # <<>>
    [] v.kind = "boolean" -> v.bool
    [] v.kind = "array" -> TRUE
    [] v.kind = "object" -> TRUE

\* the number a string converts to: 0 for the empty string, the value of a
\* run of digits, NaN for the other strings of the inputs
StringToNumber(str) ==
  IF str = <<>> THEN Zero
  ELSE IF \A k \in 1..Len(str) : IsDigit(str[k]) THEN Num(DigitsValue(str, 1, Len(str) + 1, 0), 0)
  ELSE NaN

\* the number v converts to in v * 1000
ToNumber(v) ==
  CASE v.kind = "absent" -> NaN
    [] v.kind = "null" -> Zero
    [] v.kind = "number" -> Num(v.num, 0)
    [] v.kind = "string" -> StringToNumber(v.str)
    [] v.kind = "boolean" -> IF v.bool THEN Num(1, 0) ELSE Zero
    [] v.kind = "array" -> IF v.elems = <<>> THEN Zero
                           ELSE IF Len(v.elems) = 1 THEN StringToNumber(v.elems[1])
                           ELSE NaN
    [] v.kind = "object" -> NaN

Text == <<"t","e","x","t">>
Image == <<"i","m","a","g","e">>
Audio == <<"a","u","d","i","o">>
Video == <<"v","i","d","e","o">>
File == <<"f","i","l","e">>
Tools == <<"t","o","o","l","s">>
ToolChoice == <<"t","o","o","l","_","c","h","o","i","c","e">>
Temperature == <<"t","e","m","p","e","r","a","t","u","r","e">>

\* x.includes(item) for the value x: a substring test on a string, a
\* membership test on an array, and a TypeError on a value that has no
\* includes method
IncludesOf(x, item) ==
  CASE x.kind = "string" -> Ok(includes(x.str, item))
    [] x.kind = "array" -> Ok(\E k \in 1..Len(x.elems) : x.elems[k] = item)
    [] OTHER -> Throw

\* the fallback of parseInputModalities for the modality (already || 'text')
ModalitiesFromString(modality) ==
  IF ~IncludesOf(modality, Image).ok THEN Throw
  ELSE Ok(<<Text>>
          \o (IF IncludesOf(modality, Image).value THEN <<Image>> ELSE <<>>)
          \o (IF IncludesOf(modality, Audio).value THEN <<Audio>> ELSE <<>>)
          \o (IF IncludesOf(modality, Video).value THEN <<Video>> ELSE <<>>))

\* x || 'text'
OrText(x) == IF ToBoolean(x) THEN x ELSE JsonString(Text)

InputModalitiesOf(architecture) ==
  IF Member(architecture, "input_modalities").kind = "array"
  THEN Ok(SelectSeq(Member(architecture, "input_modalities").elems,
                    LAMBDA m : m \in {Text, Image, Audio, Video, File}))
  ELSE ModalitiesFromString(OrText(Member(architecture, "modality")))

parseInputModalities(model) == InputModalitiesOf(Field(model, "architecture"))

OutputModalitiesOf(architecture) ==
  IF Member(architecture, "output_modalities").kind = "array"
  THEN SelectSeq(Member(architecture, "output_modalities").elems,
                 LAMBDA m : m \in {Text, Image, Audio})
  ELSE <<Text>>

parseOutputModalities(model) == OutputModalitiesOf(Field(model, "architecture"))

\* x?.includes(param) ?? false
HasParamIn(x, param) ==
  IF x.kind \in {"absent", "null"} THEN Ok(FALSE) ELSE IncludesOf(x, param)

hasParam(model, param) == HasParamIn(Field(model, "supported_parameters"), param)

HasItem(list, item) == \E k \in 1..Len(list) : list[k] = item

\* the legacy modality enum
LegacyModality(inputModalities, outputModalities) ==
  IF \/ HasItem(inputModalities, Audio)
     \/ HasItem(inputModalities, Video)
     \/ (HasItem(inputModalities, Image) /\ Len(outputModalities) > 1)
  THEN "multimodal"
  ELSE IF HasItem(inputModalities, Image) THEN "text+image"
  ELSE "text"

\* x ?? false
OrFalse(x) == IF x.kind \in {"absent", "null"} THEN JsonBool(FALSE) ELSE x

\* the capabilities record once no call has raised
CapabilitiesOf(model, inputModalities, outputModalities) ==
  [inputModalities |-> inputModalities,
   outputModalities |-> outputModalities,
   supportsTools |-> (hasParam(model, Tools).value \/ hasParam(model, ToolChoice).value),
   supportsTemperature |-> hasParam(model, Temperature).value,
   isModerated |-> OrFalse(Member(Field(model, "top_provider"), "is_moderated")),
   supportsImages |-> HasItem(inputModalities, Image),
   modality |-> LegacyModality(inputModalities, outputModalities)]

\* parseCapabilities: the modalities, the flags read from
\* supported_parameters, the moderation flag and the legacy fields
parseCapabilities(model) ==
  IF ~parseInputModalities(model).ok THEN Throw
  ELSE IF ~hasParam(model, Tools).ok THEN Throw
  ELSE Ok(CapabilitiesOf(model, parseInputModalities(model).value,
                         parseOutputModalities(model)))

\* raw.created ? new Date(raw.created * 1000).toISOString() : undefined;
\* toISOString raises a RangeError on the invalid date
CreatedAt(created) ==
  IF ~ToBoolean(created) THEN Ok(Undefined)
  ELSE IF ToNumber(created).nan THEN Throw
  ELSE Ok(ToISOString(ToNumber(created).n * 1000))

\* a raw record is malformed (wellFormed = FALSE) when reading raw.id or
\* raw.pricing.prompt raises; the optional fields are read by
\* parseCapabilities and for createdAt.  Of the model's fields, those that
\* are copied from the raw record unchanged are left out.
transformModel(raw) ==
  IF ~raw.wellFormed THEN Throw
  ELSE IF ~parseCapabilities(raw).ok THEN Throw
  ELSE IF ~CreatedAt(Field(raw, "created")).ok THEN Throw
  ELSE Ok([id |-> raw.id,
           slug |-> parseModelSlug(raw.id),
           providerId |-> parseProviderId(raw.id),
           contextLength |-> raw.context_length,
           sizeTier |-> getSizeTier(raw.context_length),
           pricing |-> parsePricing(raw.pricing),
           capabilities |-> parseCapabilities(raw).value,
           createdAt |-> CreatedAt(Field(raw, "created")).value])

\* Array.prototype.sort with (a, b) => b.contextLength - a.contextLength:
\* a stable sort, largest context first
RECURSIVE InsertDesc(_, _)
InsertDesc(m, sorted) ==
  IF sorted = <<>> THEN <<m>>
  ELSE IF Head(sorted).contextLength >= m.contextLength
       THEN <<Head(sorted)>> \o InsertDesc(m, Tail(sorted))
       ELSE <<m>> \o sorted

RECURSIVE SortDesc(_)
SortDesc(models) ==
  IF models = <<>> THEN <<>>
  ELSE InsertDesc(models[Len(models)], SortDesc(SubSeq(models, 1, Len(models) - 1)))

\* rawModels.map(transformModel) followed by the sort; rawModels is a JSON
\* value [kind, items] and only an array has a map method
transformModels(rawModels) ==
  IF rawModels.kind # "list" THEN Throw
  ELSE LET rs == [i \in 1..Len(rawModels.items) |-> transformModel(rawModels.items[i])]
       IN IF \E i \in 1..Len(rs) : ~rs[i].ok THEN Throw
          ELSE Ok(SortDesc([i \in 1..Len(rs) |-> rs[i].value]))


\* variant: the first model carrying the identifier is kept
LastWithId_firstWins(models, id) ==
  LET idx == {i \in 1..Len(models) : models[i].id = id}
  IN models[CHOOSE i \in idx : \A j \in idx : i <= j]

\* the last model of the list carrying the identifier (byId[model.id] = model
\* in list order)
LastWithId(models, id) ==
  LET idx == {i \in 1..Len(models) : models[i].id = id}
  IN models[CHOOSE i \in idx : \A j \in idx : j <= i]

\* variant: a tier bucket is created when its first model arrives, like the
\* provider buckets
buildRegistry_sparseTiers(models, source, t) ==
  IF \E i \in 1..Len(models) : models[i].sizeTier \notin Tiers THEN Throw
  ELSE
  LET providerSet == {models[i].providerId : i \in 1..Len(models)}
      metadata == [version |-> REGISTRY_VERSION,
                   fetchedAt |-> ToISOString(t),
                   expiresAt |-> ToISOString(t + CACHE_DURATION_MS),
                   modelCount |-> Len(models),
                   providerCount |-> Cardinality(providerSet),
                   source |-> source]
      byId == [id \in {models[i].id : i \in 1..Len(models)} |-> LastWithId(models, id)]
      byProvider == [p \in providerSet |->
                       SelectSeq(models, LAMBDA m : m.providerId = p)]
      byTier == [tier \in {models[i].sizeTier : i \in 1..Len(models)} |->
                   SelectSeq(models, LAMBDA m : m.sizeTier = tier)]
  IN Ok([metadata |-> metadata, models |-> models, byId |-> byId,
         byProvider |-> byProvider, byTier |-> byTier])

buildRegistry(models, source, t) ==
  IF \E i \in 1..Len(models) : models[i].sizeTier \notin Tiers THEN Throw
  ELSE
  LET providerSet == {models[i].providerId : i \in 1..Len(models)}
      metadata == [version |-> REGISTRY_VERSION,
                   fetchedAt |-> ToISOString(t),
                   expiresAt |-> ToISOString(t + CACHE_DURATION_MS),
                   modelCount |-> Len(models),
                   providerCount |-> Cardinality(providerSet),
                   source |-> source]
      byId == [id \in {models[i].id : i \in 1..Len(models)} |-> LastWithId(models, id)]
      byProvider == [p \in providerSet |->
                       SelectSeq(models, LAMBDA m : m.providerId = p)]
      byTier == [tier \in Tiers |-> SelectSeq(models, LAMBDA m : m.sizeTier = tier)]
  IN Ok([metadata |-> metadata, models |-> models, byId |-> byId,
         byProvider |-> byProvider, byTier |-> byTier])

----------------------------------------------------------------------------
(* Hardcoded models: fallback.ts *)

FALLBACK_MODELS ==
  <<
    [id |-> <<"a","n","t","h","r","o","p","i","c","/","c","l","a","u","d","e","-","s","o","n","n","e","t","-","4">>,
     slug |-> <<"c","l","a","u","d","e","-","s","o","n","n","e","t","-","4">>,
     providerId |-> <<"a","n","t","h","r","o","p","i","c">>,
     contextLength |-> 200000, sizeTier |-> "large"],
    [id |-> <<"a","n","t","h","r","o","p","i","c","/","c","l","a","u","d","e","-","3",".","5","-","s","o","n","n","e","t">>,
     slug |-> <<"c","l","a","u","d","e","-","3",".","5","-","s","o","n","n","e","t">>,
     providerId |-> <<"a","n","t","h","r","o","p","i","c">>,
     contextLength |-> 200000, sizeTier |-> "large"],
    [id |-> <<"a","n","t","h","r","o","p","i","c","/","c","l","a","u","d","e","-","o","p","u","s","-","4">>,
     slug |-> <<"c","l","a","u","d","e","-","o","p","u","s","-","4">>,
     providerId |-> <<"a","n","t","h","r","o","p","i","c">>,
     contextLength |-> 200000, sizeTier |-> "large"],
    [id |-> <<"o","p","e","n","a","i","/","g","p","t","-","4","o">>,
     slug |-> <<"g","p","t","-","4","o">>,
     providerId |-> <<"o","p","e","n","a","i">>,
     contextLength |-> 128000, sizeTier |-> "medium"],
    [id |-> <<"o","p","e","n","a","i","/","g","p","t","-","4","-","t","u","r","b","o">>,
     slug |-> <<"g","p","t","-","4","-","t","u","r","b","o">>,
     providerId |-> <<"o","p","e","n","a","i">>,
     contextLength |-> 128000, sizeTier |-> "medium"],
    [id |-> <<"o","p","e","n","a","i","/","o","1">>,
     slug |-> <<"o","1">>,
     providerId |-> <<"o","p","e","n","a","i">>,
     contextLength |-> 200000, sizeTier |-> "large"],
    [id |-> <<"g","o","o","g","l","e","/","g","e","m","i","n","i","-","2",".","5","-","p","r","o","-","p","r","e","v","i","e","w">>,
     slug |-> <<"g","e","m","i","n","i","-","2",".","5","-","p","r","o","-","p","r","e","v","i","e","w">>,
     providerId |-> <<"g","o","o","g","l","e">>,
     contextLength |-> 1000000, sizeTier |-> "massive"],
    [id |-> <<"g","o","o","g","l","e","/","g","e","m","i","n","i","-","2",".","0","-","f","l","a","s","h","-","e","x","p">>,
     slug |-> <<"g","e","m","i","n","i","-","2",".","0","-","f","l","a","s","h","-","e","x","p">>,
     providerId |-> <<"g","o","o","g","l","e">>,
     contextLength |-> 1000000, sizeTier |-> "massive"],
    [id |-> <<"d","e","e","p","s","e","e","k","/","d","e","e","p","s","e","e","k","-","c","h","a","t">>,
     slug |-> <<"d","e","e","p","s","e","e","k","-","c","h","a","t">>,
     providerId |-> <<"d","e","e","p","s","e","e","k">>,
     contextLength |-> 128000, sizeTier |-> "medium"],
    [id |-> <<"d","e","e","p","s","e","e","k","/","d","e","e","p","s","e","e","k","-","r","1">>,
     slug |-> <<"d","e","e","p","s","e","e","k","-","r","1">>,
     providerId |-> <<"d","e","e","p","s","e","e","k">>,
     contextLength |-> 64000, sizeTier |-> "medium"],
    [id |-> <<"m","e","t","a","-","l","l","a","m","a","/","l","l","a","m","a","-","3",".","3","-","7","0","b","-","i","n","s","t","r","u","c","t">>,
     slug |-> <<"l","l","a","m","a","-","3",".","3","-","7","0","b","-","i","n","s","t","r","u","c","t">>,
     providerId |-> <<"m","e","t","a","-","l","l","a","m","a">>,
     contextLength |-> 131072, sizeTier |-> "medium"],
    [id |-> <<"m","i","s","t","r","a","l","a","i","/","m","i","s","t","r","a","l","-","l","a","r","g","e","-","2","4","1","1">>,
     slug |-> <<"m","i","s","t","r","a","l","-","l","a","r","g","e","-","2","4","1","1">>,
     providerId |-> <<"m","i","s","t","r","a","l","a","i">>,
     contextLength |-> 128000, sizeTier |-> "medium"],
    [id |-> <<"q","w","e","n","/","q","w","e","n","-","2",".","5","-","7","2","b","-","i","n","s","t","r","u","c","t">>,
     slug |-> <<"q","w","e","n","-","2",".","5","-","7","2","b","-","i","n","s","t","r","u","c","t">>,
     providerId |-> <<"q","w","e","n">>,
     contextLength |-> 131072, sizeTier |-> "medium"],
    [id |-> <<"x","-","a","i","/","g","r","o","k","-","2">>,
     slug |-> <<"g","r","o","k","-","2">>,
     providerId |-> <<"x","-","a","i">>,
     contextLength |-> 131072, sizeTier |-> "medium"]
  >>

----------------------------------------------------------------------------
(* Inputs of the fetcher: what the network and the bundle can deliver *)

FreePricing == [prompt |-> <<"0">>, completion |-> <<"0">>]
PaidPricing == [prompt |-> <<"0", ".", "1">>, completion |-> <<"0", ".", "3">>]

rSmall == [id |-> <<"a","/","s">>, context_length |-> 4000, pricing |-> FreePricing,
           wellFormed |-> TRUE]
rBig == [id |-> <<"b","/","l">>, context_length |-> 200000, pricing |-> PaidPricing,
         wellFormed |-> TRUE]
rBad == [id |-> <<"c">>, context_length |-> 0, pricing |-> Null, wellFormed |-> FALSE]

RawLists == {<<>>, <<rSmall, rBig>>, <<rBad>>}

\* the value of the data field of a body: absent, a falsy non-list (0, "",
\* false, null), a truthy non-list (an object, a string, a number) or a list
DataValues ==
  {[kind |-> k, items |-> <<>>] : k \in {"missing", "falsy", "truthy_nonlist"}}
  \cup {[kind |-> "list", items |-> l] : l \in RawLists}

Truthy(d) == d.kind \in {"truthy_nonlist", "list"}
IsArray(d) == d.kind = "list"
EmptyList == [kind |-> "list", items |-> <<>>]

\* a body is text that is not JSON, the JSON value null, or a JSON object
Bodies ==
  {[kind |-> k, data |-> [kind |-> "missing", items |-> <<>>]] : k \in {"unparsable", "null"}}
  \cup {[kind |-> "object", data |-> d] : d \in DataValues}

ApiResponses ==
  {[outcome |-> o, body |-> [kind |-> "unparsable", data |-> [kind |-> "missing", items |-> <<>>]]] :
      o \in {"network_error", "http_error"}}
  \cup {[outcome |-> "ok", body |-> b] : b \in Bodies}

\* the dynamic import of snapshots/latest.json rejects, or yields its content
Snapshots ==
  {[loads |-> FALSE, body |-> [kind |-> "null", data |-> [kind |-> "missing", items |-> <<>>]]]}
  \cup {[loads |-> TRUE, body |-> b] : b \in {c \in Bodies : c.kind # "unparsable"}}

\* the responses and snapshots the hook's chains are run on: one per outcome
\* that the hook can tell apart (stage failed, stage delivered a registry)
HookApiResponses ==
  {r \in ApiResponses :
     \/ r.outcome = "network_error"
     \/ r.outcome = "ok" /\ r.body.kind = "object"
          /\ r.body.data = [kind |-> "list", items |-> <<rSmall, rBig>>]}

HookSnapshots ==
  {s \in Snapshots :
     \/ ~s.loads
     \/ s.body.kind = "object"
          /\ s.body.data = [kind |-> "list", items |-> <<rSmall, rBig>>]}

----------------------------------------------------------------------------
(* Fetcher: fetcher.ts *)

fetchFromOpenRouter(resp) ==
  IF resp.outcome = "network_error" THEN Throw
  ELSE IF resp.outcome = "http_error" THEN Throw
  ELSE IF resp.body.kind = "unparsable" THEN Throw
  ELSE IF resp.body.kind = "null" THEN Throw
  ELSE Ok(IF Truthy(resp.body.data) THEN resp.body.data ELSE EmptyList)

fetchRegistry(resp, t) ==
  LET rawModels == fetchFromOpenRouter(resp)
      models == transformModels(rawModels.value)
  IN IF ~rawModels.ok THEN Throw
     ELSE IF ~models.ok THEN Throw
     ELSE buildRegistry(models.value, "api", t)

\* returns a registry or null, never raises
loadFromSnapshot(snap, t) ==
  IF ~snap.loads THEN Ok(Null)
  ELSE IF snap.body.kind = "null" THEN Ok(Null)
  ELSE IF ~Truthy(snap.body.data) \/ ~IsArray(snap.body.data) THEN Ok(Null)
  ELSE LET models == transformModels(snap.body.data)
           reg == buildRegistry(models.value, "snapshot", t)
       IN IF ~models.ok THEN Ok(Null)
          ELSE IF ~reg.ok THEN Ok(Null)
          ELSE reg

getFallbackRegistry(t) == buildRegistry(FALLBACK_MODELS, "fallback", t)

\* variant: the first try block has no catch, a failed API stage ends the call
ChainAfterApi_nocatch(resp, t) ==
  [returns |-> TRUE, result |-> fetchRegistry(resp, t)]

\* fetchRegistryWithFallback up to the end of its first try block: the call
\* returns the API registry, or goes on to the snapshot stage
ChainAfterApi(resp, t) ==
  LET r == fetchRegistry(resp, t)
  IN IF r.ok THEN [returns |-> TRUE, result |-> r]
     ELSE [returns |-> FALSE, result |-> Throw]

\* variant: the snapshot registry is dropped and the hardcoded list is used
ChainAfterSnapshot_dropsSnapshot(snap, t) == getFallbackRegistry(t)

\* fetchRegistryWithFallback from the snapshot stage to its return
ChainAfterSnapshot(snap, t) ==
  LET snapshotRegistry == loadFromSnapshot(snap, t)
  IN IF snapshotRegistry.ok /\ snapshotRegistry.value # Null
     THEN snapshotRegistry
     ELSE getFallbackRegistry(t)

----------------------------------------------------------------------------
(* State *)

VARIABLES
  now,          \* the clock read by new Date(), in milliseconds
  hasWindow,    \* typeof window !== 'undefined'
  storage,      \* localStorage: "ok", "blocked" (every access raises) or "full" (setItem raises)
  store,        \* localStorage.getItem(CACHE_KEY): Null or a text
  registry,     \* per hook instance: useState registry
  isLoading,    \* per hook instance: useState isLoading
  error,        \* per hook instance: useState error
  fetchingRef,  \* per hook instance: fetchingRef.current
  isStale,      \* per hook instance: the memoised isStale
  mounted,      \* per hook instance: the mount effect has run
  chains,       \* per hook instance: the fallback chains in flight, [id, stage]
  started,      \* per hook instance: number of chains started
  installed,    \* per hook instance: id of the chain whose completion ran last
  chainResult,  \* per hook instance: what that chain handed to loadRegistry
  lastLoad,     \* per hook instance: how the current registry was installed
  lateSaw,      \* per hook instance: id of the chain in flight when loadRegistry was last called during a chain
  call,         \* a direct call of fetchRegistryWithFallback
  libCall,      \* a direct call of an exported function: [op, arg, result]
  libPrev       \* the registry the caller holds from its previous call, or Null

vars == <<now, hasWindow, storage, store, registry, isLoading, error,
          fetchingRef, isStale, mounted, chains, started, installed,
          chainResult, lastLoad, lateSaw, call, libCall, libPrev>>

hookVars == <<registry, isLoading, error, fetchingRef, isStale, mounted,
              chains, started, installed, chainResult, lastLoad, lateSaw>>

envVars == <<hasWindow, storage, store>>

libVars == <<libCall, libPrev>>

\* two components mount useModelRegistry, each with its own hook instance
Instances == {1, 2}

TimePoints ==
  {0} \cup {k * CACHE_DURATION_MS + e : k \in 1..MaxDays, e \in {-1, 0}}

----------------------------------------------------------------------------
(* Cache of the hook: react.ts *)

\* variant: the expiry comparison is inverted
loadFromCache_inverted(st, win, mode, t) ==
  IF ~win THEN Null
  ELSE IF mode = "blocked" THEN Null
  ELSE IF st = Null THEN Null
  ELSE LET parsed == JsonParse(st)
       IN IF ~parsed.ok THEN Null
          ELSE IF "metadata" \notin DOMAIN parsed.value THEN Null
          ELSE IF DateLt(t, ParseDate(parsed.value.metadata.expiresAt)) THEN Null
          ELSE parsed.value

\* JSON.parse(raw).metadata.expiresAt raises when the value has no metadata
loadFromCache(st, win, mode, t) ==
  IF ~win THEN Null
  ELSE IF mode = "blocked" THEN Null
  ELSE IF st = Null THEN Null
  ELSE LET parsed == JsonParse(st)
       IN IF ~parsed.ok THEN Null
          ELSE IF "metadata" \notin DOMAIN parsed.value THEN Null
          ELSE IF DateGe(t, ParseDate(parsed.value.metadata.expiresAt)) THEN Null
          ELSE parsed.value

\* variant: the registry is never written
saveToCache_skipped(reg, st, win, mode) == Ok(st)

\* variant: a raising setItem is not caught
saveToCache_raises(reg, st, win, mode) ==
  IF ~win THEN Ok(st)
  ELSE IF mode # "ok" THEN Throw
  ELSE Ok(JsonStringify(reg))

\* variant: only a registry that came from the API is written
saveToCache_apiOnly(reg, st, win, mode) ==
  IF ~win THEN Ok(st)
  ELSE IF mode # "ok" THEN Ok(st)
  ELSE IF reg.metadata.source # "api" THEN Ok(st)
  ELSE Ok(JsonStringify(reg))

\* the content of the store after the call; a raising setItem is ignored
saveToCache(reg, st, win, mode) ==
  IF ~win THEN Ok(st)
  ELSE IF mode # "ok" THEN Ok(st)
  ELSE Ok(JsonStringify(reg))

isCacheFresh(reg, t) == DateLt(t, ParseDate(reg.metadata.expiresAt))

\* const isStale = useMemo(..., [registry]), evaluated when registry changes
computeIsStale(reg, t) == IF reg = Null THEN FALSE ELSE ~isCacheFresh(reg, t)

\* variant: the guard is missing
inFlight_unguarded(i) == FALSE

\* if (fetchingRef.current) return;
inFlight(i) == fetchingRef[i]

ErrorOf(result) == [message |-> "fetchRegistryWithFallback rejected"]

MaxId(S) == CHOOSE c \in S : \A d \in S : d <= c

RECURSIVE SumOver(_, _)
SumOver(f, S) ==
  IF S = {} THEN 0
  ELSE LET x == CHOOSE y \in S : TRUE IN f[x] + SumOver(f, S \ {x})

\* chains started by all the instances
TotalStarted == SumOver(started, Instances)

----------------------------------------------------------------------------
(* The hook useModelRegistry: react.ts *)

\* loadRegistry up to its first await
loadRegistry(i, forceRefresh) ==
  /\ lateSaw' = IF chains[i] # {}
                THEN [lateSaw EXCEPT ![i] = MaxId({c.id : c \in chains[i]})]
                ELSE lateSaw
  /\ IF inFlight(i)
     THEN UNCHANGED <<now, registry, isLoading, error, fetchingRef, isStale,
                      chains, started, lastLoad>>
     ELSE \E elapsed \in {0, 1} :
          LET cached == IF forceRefresh THEN Null
                        ELSE loadFromCache(store, hasWindow, storage, now)
              t2 == now + elapsed
              hit == cached # Null /\ isCacheFresh(cached, t2)
          IN /\ t2 \in TimePoints
             /\ elapsed = 1 => cached # Null
             /\ now' = t2
             /\ IF hit
                THEN /\ registry' = [registry EXCEPT ![i] = cached]
                     /\ isLoading' = [isLoading EXCEPT ![i] = FALSE]
                     /\ isStale' = [isStale EXCEPT ![i] = computeIsStale(cached, t2)]
                     /\ lastLoad' = [lastLoad EXCEPT ![i] = "cache"]
                     /\ UNCHANGED <<error, fetchingRef, chains, started>>
                ELSE /\ TotalStarted < MaxChains
                     /\ fetchingRef' = [fetchingRef EXCEPT ![i] = TRUE]
                     /\ isLoading' = [isLoading EXCEPT ![i] = TRUE]
                     /\ error' = [error EXCEPT ![i] = Null]
                     /\ started' = [started EXCEPT ![i] = @ + 1]
                     /\ chains' = [chains EXCEPT ![i] =
                                     @ \cup {[id |-> started[i] + 1, stage |-> "api"]}]
                     /\ UNCHANGED <<registry, isStale, lastLoad>>
  /\ UNCHANGED <<installed, chainResult, envVars, call, libVars>>

\* useEffect(() => { loadRegistry(); }, [loadRegistry])
Mount(i) ==
  /\ ~mounted[i]
  /\ mounted' = [mounted EXCEPT ![i] = TRUE]
  /\ loadRegistry(i, FALSE)

\* refresh: () => loadRegistry(true)
Refresh(i) ==
  /\ mounted[i]
  /\ UNCHANGED mounted
  /\ loadRegistry(i, TRUE)

\* variant: the finally block runs, the registry of the chain is not installed
Complete_notInstalled(i, c, result) ==
  /\ fetchingRef' = [fetchingRef EXCEPT ![i] = FALSE]
  /\ isLoading' = [isLoading EXCEPT ![i] = FALSE]
  /\ chains' = [chains EXCEPT ![i] = @ \ {c}]
  /\ installed' = [installed EXCEPT ![i] = c.id]
  /\ chainResult' = [chainResult EXCEPT ![i] = result]
  /\ UNCHANGED <<now, envVars, registry, error, isStale, mounted, started,
                 lastLoad, lateSaw, call, libVars>>

\* variant: the finally block does not reset fetchingRef.current
Complete_guardKept(i, c, result) ==
  LET save == IF result.ok
              THEN saveToCache(result.value, store, hasWindow, storage)
              ELSE Ok(store)
      tryOk == result.ok /\ save.ok
      stale == loadFromCache(store, hasWindow, storage, now)
      fallback == getFallbackRegistry(now)
      newRegistry ==
        IF tryOk THEN result.value
        ELSE IF stale # Null THEN stale
        ELSE IF fallback.ok THEN fallback.value
        ELSE IF result.ok THEN result.value
        ELSE registry[i]
  IN /\ registry' = [registry EXCEPT ![i] = newRegistry]
     /\ store' = IF tryOk THEN save.value ELSE store
     /\ error' = [error EXCEPT ![i] = IF tryOk THEN @ ELSE ErrorOf(result)]
     /\ isLoading' = [isLoading EXCEPT ![i] = FALSE]
     /\ isStale' = [isStale EXCEPT ![i] = computeIsStale(newRegistry, now)]
     /\ chains' = [chains EXCEPT ![i] = @ \ {c}]
     /\ installed' = [installed EXCEPT ![i] = c.id]
     /\ chainResult' = [chainResult EXCEPT ![i] = result]
     /\ lastLoad' = [lastLoad EXCEPT ![i] = "chain"]
     /\ UNCHANGED <<now, hasWindow, storage, mounted, started, lateSaw, call,
                    libVars, fetchingRef>>

\* loadRegistry from the settlement of fetchRegistryWithFallback to its end
Complete(i, c, result) ==
  LET save == IF result.ok
              THEN saveToCache(result.value, store, hasWindow, storage)
              ELSE Ok(store)
      tryOk == result.ok /\ save.ok
      stale == loadFromCache(store, hasWindow, storage, now)
      fallback == getFallbackRegistry(now)
      newRegistry ==
        IF tryOk THEN result.value
        ELSE IF stale # Null THEN stale
        ELSE IF fallback.ok THEN fallback.value
        ELSE IF result.ok THEN result.value
        ELSE registry[i]
  IN /\ registry' = [registry EXCEPT ![i] = newRegistry]
     /\ store' = IF tryOk THEN save.value ELSE store
     /\ error' = [error EXCEPT ![i] = IF tryOk THEN @ ELSE ErrorOf(result)]
     /\ fetchingRef' = [fetchingRef EXCEPT ![i] = FALSE]
     /\ isLoading' = [isLoading EXCEPT ![i] = FALSE]
     /\ isStale' = [isStale EXCEPT ![i] = computeIsStale(newRegistry, now)]
     /\ chains' = [chains EXCEPT ![i] = @ \ {c}]
     /\ installed' = [installed EXCEPT ![i] = c.id]
     /\ chainResult' = [chainResult EXCEPT ![i] = result]
     /\ lastLoad' = [lastLoad EXCEPT ![i] = "chain"]
     /\ UNCHANGED <<now, hasWindow, storage, mounted, started, lateSaw, call, libVars>>

\* the API stage of an instance's chain settles
ApiSettle(i) ==
  \E c \in chains[i] : \E resp \in HookApiResponses :
    /\ c.stage = "api"
    /\ LET r == ChainAfterApi(resp, now)
       IN IF r.returns
          THEN Complete(i, c, r.result)
          ELSE /\ chains' = [chains EXCEPT ![i] =
                               (@ \ {c}) \cup {[id |-> c.id, stage |-> "snapshot"]}]
               /\ UNCHANGED <<now, envVars, registry, isLoading, error,
                              fetchingRef, isStale, mounted, started,
                              installed, chainResult, lastLoad, lateSaw, call, libVars>>

\* the snapshot stage of an instance's chain settles
SnapshotSettle(i) ==
  \E c \in chains[i] : \E snap \in HookSnapshots :
    /\ c.stage = "snapshot"
    /\ Complete(i, c, ChainAfterSnapshot(snap, now))

\* time passes
Tick ==
  /\ \E t \in TimePoints : t > now /\ now' = t
  /\ UNCHANGED <<envVars, hookVars, call, libVars>>

----------------------------------------------------------------------------
(* A direct call of fetchRegistryWithFallback *)

IdleCall == [pc |-> "idle", api |-> Null, snap |-> Null,
             apiFailed |-> FALSE, snapFailed |-> FALSE, result |-> Throw]

FetchStart ==
  /\ call.pc \in {"idle", "done"}
  /\ call' = [IdleCall EXCEPT !.pc = "api"]
  /\ UNCHANGED <<now, envVars, hookVars, libVars>>

\* variant: the snapshot stage is started whatever the API stage delivered
FetchApiSettle_thenSnapshot ==
  /\ call.pc = "api"
  /\ \E resp \in ApiResponses :
       call' = [call EXCEPT !.pc = "snapshot", !.api = resp,
                            !.apiFailed = ~ChainAfterApi(resp, now).returns]
  /\ UNCHANGED <<now, envVars, hookVars, libVars>>

FetchApiSettle ==
  /\ call.pc = "api"
  /\ \E resp \in ApiResponses :
       LET r == ChainAfterApi(resp, now)
       IN call' = IF r.returns
                  THEN [call EXCEPT !.pc = "done", !.api = resp, !.result = r.result]
                  ELSE [call EXCEPT !.pc = "snapshot", !.api = resp, !.apiFailed = TRUE]
  /\ UNCHANGED <<now, envVars, hookVars, libVars>>

FetchSnapshotSettle ==
  /\ call.pc = "snapshot"
  /\ \E snap \in Snapshots :
       call' = [call EXCEPT !.pc = "done", !.snap = snap,
                            !.snapFailed = (loadFromSnapshot(snap, now).value = Null),
                            !.result = ChainAfterSnapshot(snap, now)]
  /\ UNCHANGED <<now, envVars, hookVars, libVars>>

----------------------------------------------------------------------------
(* Direct calls of the exported functions: index.ts *)

IdleLib == [op |-> "idle", arg |-> Null, result |-> Throw]

\* const registry = await fetchRegistry();
CallFetchRegistry ==
  /\ libCall.op = "idle"
  /\ \E resp \in ApiResponses :
       libCall' = [op |-> "fetchRegistry", arg |-> resp,
                   result |-> fetchRegistry(resp, now)]
  /\ UNCHANGED <<now, envVars, hookVars, call, libPrev>>

\* Object identity.  A model object is told apart by its field obj.  The
\* objects of the FALLBACK_MODELS array literal are created once, when the
\* module fallback.ts is loaded; every object literal that transformModel
\* evaluates is a new object.
WithIdentity(models, objs) ==
  [i \in 1..Len(models) |-> models[i] @@ [obj |-> objs[i]]]

ObjectsOf(reg) ==
  IF reg = Null THEN {} ELSE {reg.models[i].obj : i \in 1..Len(reg.models)}

FallbackObjects == [i \in 1..Len(FALLBACK_MODELS) |-> i]

\* the n lowest object numbers that no live object carries
RECURSIVE NewObjects(_, _)
NewObjects(n, live) ==
  IF n = 0 THEN <<>>
  ELSE LET o == CHOOSE k \in 1..(Cardinality(live) + 1) :
                  k \notin live /\ \A j \in 1..(k - 1) : j \in live
       IN <<o>> \o NewObjects(n - 1, live \cup {o})

LiveObjects ==
  {FallbackObjects[i] : i \in 1..Len(FALLBACK_MODELS)} \cup ObjectsOf(libPrev)

\* a second upstream record that carries the identifier of rSmall
rDup == [id |-> <<"a","/","s">>, context_length |-> 200000, pricing |-> PaidPricing,
         wellFormed |-> TRUE]

LibRaws == {rSmall, rBig, rDup, rBad}

LibRawLists == UNION {[1..n -> LibRaws] : n \in 0..MaxRaws}

\* buildRegistry(transformModels(rawModels)): rawModels.map(transformModel)
\* creates the model objects in input order, the sort moves them, and
\* buildRegistry indexes them
CallBuildRegistry ==
  /\ libCall.op = "idle"
  /\ \E raws \in LibRawLists :
       LET mapped == [i \in 1..Len(raws) |-> transformModel(raws[i])]
           objs == NewObjects(Len(raws), LiveObjects)
           models == SortDesc(WithIdentity([i \in 1..Len(raws) |-> mapped[i].value], objs))
       IN libCall' = [op |-> "buildRegistry", arg |-> raws,
                      result |-> IF \E i \in 1..Len(raws) : ~mapped[i].ok
                                 THEN Throw
                                 ELSE buildRegistry(models, "api", now)]
  /\ UNCHANGED <<now, envVars, hookVars, call, libPrev>>

\* getFallbackRegistry(): buildRegistry is handed the FALLBACK_MODELS array
CallGetFallbackRegistry ==
  /\ libCall.op = "idle"
  /\ libCall' = [op |-> "getFallbackRegistry", arg |-> Null,
                 result |-> buildRegistry(WithIdentity(FALLBACK_MODELS, FallbackObjects),
                                          "fallback", now)]
  /\ UNCHANGED <<now, envVars, hookVars, call, libPrev>>

\* context window sizes on and next to the tier boundaries
ContextProbes ==
  {0, 7999, 8000, 8001, 31999, 32000, 32001, 127999, 128000, 128001,
   499999, 500000, 500001, 1000000}

PriceAlphabet == {"0", "1", ".", "-", "x"}

PriceStrings == UNION {[1..n -> PriceAlphabet] : n \in 0..MaxPriceLen}

\* identifiers with no slash, one slash, two slashes, a leading slash and a
\* trailing slash, and the empty identifier
IdProbes ==
  {<<"m">>, <<"p", "/", "m">>, <<"p", "/", "m", "/", "x">>, <<"/", "m">>,
   <<"p", "/">>, <<>>}

\* values of the optional fields: absent, as the API documents them, and of
\* another JSON type
ArchitectureProbes ==
  {Undefined, JsonNull, JsonString(Text),
   JsonObject([modality |-> JsonString(<<"t","e","x","t","+","i","m","a","g","e">>)]),
   JsonObject([modality |-> JsonNumber(5)]),
   JsonObject([modality |-> JsonNumber(5),
               input_modalities |-> JsonArray(<<Image, <<"x">>>>),
               output_modalities |-> JsonArray(<<Text, Image>>)])}

SupportedParametersProbes ==
  {Undefined, JsonArray(<<Tools>>), JsonString(Tools), JsonNumber(0),
   JsonObject([length |-> JsonNumber(1)])}

CreatedProbes ==
  {Undefined, JsonNull, JsonNumber(0), JsonNumber(1700), JsonString(<<"1","7">>),
   JsonString(<<"x">>)}

TopProviderProbes ==
  {Undefined, JsonNull, JsonNumber(5), JsonObject([is_moderated |-> JsonBool(TRUE)])}

DefaultParametersProbes == {Undefined, JsonNumber(5)}

PerRequestLimitsProbes == {Undefined, JsonNull, JsonString(<<"x">>)}

\* raw records with both core prices and every combination of the probed
\* values of the optional fields
OptionalProbeRaws ==
  {[id |-> <<"p","/","m">>, context_length |-> 4000, pricing |-> PaidPricing,
    wellFormed |-> TRUE,
    architecture |-> a, supported_parameters |-> sp, created |-> c,
    top_provider |-> tp, default_parameters |-> dp, per_request_limits |-> prl] :
     a \in ArchitectureProbes, sp \in SupportedParametersProbes,
     c \in CreatedProbes, tp \in TopProviderProbes,
     dp \in DefaultParametersProbes, prl \in PerRequestLimitsProbes}

\* raw records for a call of transformModel: every probed context size with
\* one pricing, every pair of pricing strings with one context size, every
\* probed identifier, and every combination of optional fields
ProbeRaws ==
  OptionalProbeRaws \cup
  {[id |-> i, context_length |-> 4000, pricing |-> PaidPricing,
    wellFormed |-> TRUE] : i \in IdProbes} \cup
  {[id |-> <<"p","/","m">>, context_length |-> c, pricing |-> PaidPricing,
    wellFormed |-> TRUE] : c \in ContextProbes}
  \cup {[id |-> <<"p","/","m">>, context_length |-> 4000,
         pricing |-> [prompt |-> a, completion |-> b],
         wellFormed |-> TRUE] : a \in PriceStrings, b \in PriceStrings}

\* transformModel(raw)
CallTransformModel ==
  /\ libCall.op = "idle"
  /\ \E raw \in ProbeRaws :
       libCall' = [op |-> "transformModel", arg |-> raw, result |-> transformModel(raw)]
  /\ UNCHANGED <<now, envVars, hookVars, call, libPrev>>

\* the caller keeps the registry it was given and goes on to its next call
LibReturn ==
  /\ libCall.op # "idle"
  /\ libCall' = IdleLib
  /\ libPrev' = IF libCall.op \in {"buildRegistry", "getFallbackRegistry"} /\ libCall.result.ok
                THEN libCall.result.value
                ELSE libPrev
  /\ UNCHANGED <<now, envVars, hookVars, call>>

----------------------------------------------------------------------------
(* Query engine: utils.ts *)

\* An optional value is absent (Undefined) or carries a kind and a value.
Str(s) == [kind |-> "string", value |-> s]
StrList(l) == [kind |-> "list", items |-> l]
Number(n) == [kind |-> "number", value |-> n]
Bool(b) == [kind |-> "boolean", value |-> b]
\* a value of a string-literal type (a tier, a sort key, a sort order)
Enum(v) == [kind |-> "enum", value |-> v]

\* the truthiness test of if (x): undefined, '', 0 and false are falsy, an
\* array is truthy also when it is empty
IsTruthy(x) ==
  CASE x.kind = "absent" -> FALSE
    [] x.kind = "string" -> x.value # <<>>
    [] x.kind = "number" -> x.value # 0
    [] x.kind = "boolean" -> x.value
    [] x.kind = "enum" -> TRUE
    [] x.kind = "list" -> TRUE

UpperChars == <<"A","B","C","D","E","F","G","H","I","J","K","L","M",
                "N","O","P","Q","R","S","T","U","V","W","X","Y","Z">>
LowerChars == <<"a","b","c","d","e","f","g","h","i","j","k","l","m",
                "n","o","p","q","r","s","t","u","v","w","x","y","z">>

IsUpper(c) == \E k \in 1..26 : UpperChars[k] = c

toLowerCase(s) ==
  [i \in 1..Len(s) |->
     IF IsUpper(s[i]) THEN LowerChars[CHOOSE k \in 1..26 : UpperChars[k] = s[i]]
     ELSE s[i]]

\* a.localeCompare(b) for strings of letters: alphabetical without regard to
\* case, then lower case before upper case at the first difference
LetterRank(c) == CHOOSE k \in 1..26 : LowerChars[k] = c

RECURSIVE LexCompare(_, _, _)
LexCompare(a, b, i) ==
  IF i > Len(a) /\ i > Len(b) THEN 0
  ELSE IF i > Len(a) THEN -1
  ELSE IF i > Len(b) THEN 1
  ELSE IF LetterRank(a[i]) < LetterRank(b[i]) THEN -1
  ELSE IF LetterRank(a[i]) > LetterRank(b[i]) THEN 1
  ELSE LexCompare(a, b, i + 1)

RECURSIVE CaseCompare(_, _, _)
CaseCompare(a, b, i) ==
  IF i > Len(a) THEN 0
  ELSE IF a[i] = b[i] THEN CaseCompare(a, b, i + 1)
  ELSE IF IsUpper(b[i]) THEN -1
  ELSE 1

localeCompare(a, b) ==
  LET primary == LexCompare(toLowerCase(a), toLowerCase(b), 1)
  IN IF primary # 0 THEN primary ELSE CaseCompare(a, b, 1)

\* the sign of x - y for two numbers n / 10^e
NumCompare(x, y) ==
  LET l == x.n * 10 ^ y.e
      r == y.n * 10 ^ x.e
  IN IF l < r THEN -1 ELSE IF l > r THEN 1 ELSE 0

IntCompare(x, y) == IF x < y THEN -1 ELSE IF x > y THEN 1 ELSE 0

\* the models queried: LLMModel objects with the fields queryModels reads
mTiny == [id |-> <<"a","/","x">>, name |-> <<"N","x">>,
          description |-> Undefined,
          provider |-> [id |-> <<"a">>, name |-> <<"A","a">>],
          contextLength |-> 4000, sizeTier |-> "tiny",
          pricing |-> [promptPerMillion |-> Zero, isFree |-> TRUE],
          capabilities |-> [supportsImages |-> FALSE]]
mSmall == [id |-> <<"b","/","y">>, name |-> <<"n","y">>,
           description |-> Str(<<"A","X">>),
           provider |-> [id |-> <<"b">>, name |-> <<"B">>],
           contextLength |-> 16000, sizeTier |-> "small",
           pricing |-> [promptPerMillion |-> Num(25, 1), isFree |-> FALSE],
           capabilities |-> [supportsImages |-> TRUE]]
mLarge == [id |-> <<"B","/","z">>, name |-> <<"m">>,
           description |-> Undefined,
           provider |-> [id |-> <<"B">>, name |-> <<"b">>],
           contextLength |-> 200000, sizeTier |-> "large",
           pricing |-> [promptPerMillion |-> Num(3, 0), isFree |-> FALSE],
           capabilities |-> [supportsImages |-> TRUE]]
mLargeFree == [id |-> <<"a","/","w">>, name |-> <<"n","x">>,
               description |-> Str(<<"y">>),
               provider |-> [id |-> <<"a">>, name |-> <<"A","a">>],
               contextLength |-> 200000, sizeTier |-> "large",
               pricing |-> [promptPerMillion |-> Zero, isFree |-> TRUE],
               capabilities |-> [supportsImages |-> FALSE]]

Catalog == {mTiny, mSmall, mLarge, mLargeFree}

ModelLists == UNION {[1..n -> Catalog] : n \in 0..MaxModels}

NoOptions ==
  [provider |-> Undefined, minContext |-> Undefined, maxContext |-> Undefined,
   tier |-> Undefined, isFree |-> Undefined, supportsImages |-> Undefined,
   search |-> Undefined, sortBy |-> Undefined, sortOrder |-> Undefined,
   limit |-> Undefined]

\* option sets that filter, and option sets that sort and cut a filtered list
FilterOptions ==
  {[NoOptions EXCEPT !.provider = p, !.minContext = lo, !.maxContext = hi,
                     !.tier = t, !.isFree = f, !.supportsImages = img,
                     !.search = q] :
     p \in {Undefined, Str(<<>>), Str(<<"B">>), StrList(<<<<"A","A">>, <<"c">>>>)},
     lo \in {Undefined, Number(16000)},
     hi \in {Undefined, Number(16000)},
     t \in {Undefined, Enum("large"), StrList(<<"tiny", "small">>)},
     f \in {Undefined, Bool(TRUE), Bool(FALSE)},
     img \in {Undefined, Bool(FALSE)},
     q \in {Undefined, Str(<<>>), Str(<<"X">>)}}

SortOptions ==
  {[NoOptions EXCEPT !.minContext = lo, !.isFree = f, !.sortBy = by,
                     !.sortOrder = ord, !.limit = n] :
     lo \in {Undefined, Number(16000)},
     f \in {Undefined, Bool(FALSE)},
     by \in {Undefined, Enum("context"), Enum("price"), Enum("name"), Enum("provider")},
     ord \in {Undefined, Enum("asc"), Enum("desc")},
     n \in {Undefined, Number(0), Number(1), Number(2)}}

QueryOptions == FilterOptions \cup SortOptions

\* the filter passes of queryModels, each over the working list
providerPass(results, options) ==
  IF ~IsTruthy(options.provider) THEN results
  ELSE LET providers == IF options.provider.kind = "list"
                        THEN options.provider.items
                        ELSE <<options.provider.value>>
       IN SelectSeq(results, LAMBDA m :
            \E k \in 1..Len(providers) :
              \/ toLowerCase(m.provider.id) = toLowerCase(providers[k])
              \/ toLowerCase(m.provider.name) = toLowerCase(providers[k]))

minContextPass(results, options) ==
  IF options.minContext = Undefined THEN results
  ELSE SelectSeq(results, LAMBDA m : m.contextLength >= options.minContext.value)

maxContextPass(results, options) ==
  IF options.maxContext = Undefined THEN results
  ELSE SelectSeq(results, LAMBDA m : m.contextLength <= options.maxContext.value)

tierPass(results, options) ==
  IF ~IsTruthy(options.tier) THEN results
  ELSE LET tiers == IF options.tier.kind = "list"
                    THEN options.tier.items
                    ELSE <<options.tier.value>>
       IN SelectSeq(results, LAMBDA m : \E k \in 1..Len(tiers) : tiers[k] = m.sizeTier)

isFreePass(results, options) ==
  IF options.isFree = Undefined THEN results
  ELSE SelectSeq(results, LAMBDA m : m.pricing.isFree = options.isFree.value)

supportsImagesPass(results, options) ==
  IF options.supportsImages = Undefined THEN results
  ELSE SelectSeq(results, LAMBDA m :
         m.capabilities.supportsImages = options.supportsImages.value)

searchPass(results, options) ==
  IF ~IsTruthy(options.search) THEN results
  ELSE LET search == toLowerCase(options.search.value)
       IN SelectSeq(results, LAMBDA m :
            \/ includes(toLowerCase(m.id), search)
            \/ includes(toLowerCase(m.name), search)
            \/ includes(toLowerCase(m.provider.name), search)
            \/ (m.description # Undefined
                  /\ includes(toLowerCase(m.description.value), search)))

\* the comparator handed to results.sort
compareModels(a, b, options) ==
  LET order == IF options.sortOrder = Enum("desc") THEN -1 ELSE 1
      diff == CASE options.sortBy = Enum("context") ->
                     IntCompare(a.contextLength, b.contextLength)
                [] options.sortBy = Enum("price") ->
                     NumCompare(a.pricing.promptPerMillion, b.pricing.promptPerMillion)
                [] options.sortBy = Enum("name") -> localeCompare(a.name, b.name)
                [] options.sortBy = Enum("provider") ->
                     localeCompare(a.provider.name, b.provider.name)
                [] OTHER -> 0
  IN diff * order

\* Array.prototype.sort is stable
RECURSIVE InsertSorted(_, _, _)
InsertSorted(m, sorted, options) ==
  IF sorted = <<>> THEN <<m>>
  ELSE IF compareModels(Head(sorted), m, options) <= 0
       THEN <<Head(sorted)>> \o InsertSorted(m, Tail(sorted), options)
       ELSE <<m>> \o sorted

RECURSIVE sortModels(_, _)
sortModels(results, options) ==
  IF results = <<>> THEN <<>>
  ELSE InsertSorted(results[Len(results)],
                    sortModels(SubSeq(results, 1, Len(results) - 1), options),
                    options)

\* results.slice(0, n)
slice(results, n) ==
  IF n >= 0 THEN SubSeq(results, 1, IF n < Len(results) THEN n ELSE Len(results))
  ELSE SubSeq(results, 1, IF Len(results) + n > 0 THEN Len(results) + n ELSE 0)

filterModels(results, options) ==
  searchPass(
    supportsImagesPass(
      isFreePass(
        tierPass(
          maxContextPass(
            minContextPass(
              providerPass(results, options), options), options), options),
        options), options), options)

\* a filter pass yields a new array; without one, results is still the copy
\* or the array the copy was taken from
filtersApplied(options) ==
  \/ IsTruthy(options.provider)
  \/ options.minContext # Undefined
  \/ options.maxContext # Undefined
  \/ IsTruthy(options.tier)
  \/ options.isFree # Undefined
  \/ options.supportsImages # Undefined
  \/ IsTruthy(options.search)

\* variant: let results = models, the sort works on the caller's array
queryModels_noCopy(models, options) ==
  LET filtered == filterModels(models, options)
      sorted == IF IsTruthy(options.sortBy) THEN sortModels(filtered, options)
                ELSE filtered
      limited == IF IsTruthy(options.limit)
                 THEN slice(sorted, options.limit.value) ELSE sorted
  IN [models |-> IF filtersApplied(options) THEN models ELSE sorted,
      results |-> limited]

\* variant: the lower context bound is exclusive
queryModels_exclusiveMin(models, options) ==
  LET filtered == filterModels(
                    IF options.minContext = Undefined THEN models
                    ELSE SelectSeq(models, LAMBDA m :
                           m.contextLength > options.minContext.value),
                    options)
      sorted == IF IsTruthy(options.sortBy) THEN sortModels(filtered, options)
                ELSE filtered
      limited == IF IsTruthy(options.limit)
                 THEN slice(sorted, options.limit.value) ELSE sorted
  IN [models |-> models, results |-> limited]

\* queryModels: the caller's array after the call, and the array returned.
\* results starts as a copy of models, so the sort never works on models.
queryModels(models, options) ==
  LET filtered == filterModels(models, options)
      sorted == IF IsTruthy(options.sortBy) THEN sortModels(filtered, options)
                ELSE filtered
      limited == IF IsTruthy(options.limit)
                 THEN slice(sorted, options.limit.value) ELSE sorted
  IN [models |-> models, results |-> limited]

\* queryModels(models, options)
CallQueryModels ==
  /\ libCall.op = "idle"
  /\ \E models \in ModelLists, options \in QueryOptions :
       LET r == queryModels(models, options)
       IN libCall' = [op |-> "queryModels",
                      arg |-> [models |-> models, options |-> options],
                      result |-> Ok(r.results),
                      models |-> r.models,
                      first |-> Undefined]
  /\ UNCHANGED <<now, envVars, hookVars, call, libPrev>>

\* the same call once more, on the caller's array as the first call left it
CallQueryModelsAgain ==
  /\ libCall.op = "queryModels"
  /\ libCall.first = Undefined
  /\ LET r == queryModels(libCall.models, libCall.arg.options)
     IN libCall' = [op |-> "queryModels",
                    arg |-> [models |-> libCall.models, options |-> libCall.arg.options],
                    result |-> Ok(r.results),
                    models |-> r.models,
                    first |-> [models |-> libCall.arg.models,
                               results |-> libCall.result.value]]
  /\ UNCHANGED <<now, envVars, hookVars, call, libPrev>>

----------------------------------------------------------------------------
(* Model lookup: utils.ts *)

\* white space as String.prototype.trim and the class \s see it
IsSpace(c) == c \in {" ", "\t", "\n"}

RECURSIVE trimStart(_)
trimStart(s) == IF s # <<>> /\ IsSpace(Head(s)) THEN trimStart(Tail(s)) ELSE s

RECURSIVE trimEnd(_)
trimEnd(s) ==
  IF s # <<>> /\ IsSpace(s[Len(s)]) THEN trimEnd(SubSeq(s, 1, Len(s) - 1)) ELSE s

trim(s) == trimEnd(trimStart(s))

\* s.endsWith(suffix)
endsWith(s, suffix) ==
  Len(suffix) <= Len(s) /\ SubSeq(s, Len(s) - Len(suffix) + 1, Len(s)) = suffix

\* variant: only hyphens are removed
stripFuzzy_hyphensOnly(s) == SelectSeq(s, LAMBDA c : c # "-")

\* s.replace(/[-.\s]/g, '')
stripFuzzy(s) == SelectSeq(s, LAMBDA c : c \notin {"-", "."} /\ ~IsSpace(c))

\* models.find(test): the first element that passes, or undefined
find(models, test(_)) ==
  IF \E i \in 1..Len(models) : test(models[i])
  THEN models[CHOOSE i \in 1..Len(models) :
                /\ test(models[i])
                /\ \A j \in 1..(i - 1) : ~test(models[j])]
  ELSE Undefined

\* if (x) return x; with the rest of the function as y
ReturnIfFound(x, y) == IF x # Undefined THEN x ELSE y

\* the fuzzy pass of findModel
fuzzyFind(fuzzyQuery, models) ==
  find(models, LAMBDA m :
         \/ includes(stripFuzzy(toLowerCase(m.id)), fuzzyQuery)
         \/ includes(stripFuzzy(toLowerCase(m.slug)), fuzzyQuery)
         \/ includes(stripFuzzy(toLowerCase(m.name)), fuzzyQuery))

\* findModel after normalized has been computed
findNormalized(normalized, models) ==
  ReturnIfFound(find(models, LAMBDA m : toLowerCase(m.id) = normalized),
  ReturnIfFound(find(models, LAMBDA m : toLowerCase(m.slug) = normalized),
  ReturnIfFound(find(models, LAMBDA m : endsWith(toLowerCase(m.id), <<"/">> \o normalized)),
  ReturnIfFound(find(models, LAMBDA m : includes(toLowerCase(m.name), normalized)),
                fuzzyFind(stripFuzzy(normalized), models)))))

\* variant: one pass over the list, a model matching at any stage wins
findModel_onePass(query, models) ==
  find(models, LAMBDA m : findNormalized(trim(toLowerCase(query)), <<m>>) # Undefined)

findModel(query, models) == findNormalized(trim(toLowerCase(query)), models)

\* models the lookup is tried on: id, slug and name are the fields it reads
lookupAB == [id |-> <<"a","/","b">>, slug |-> <<"b">>, name |-> <<"B","-","a">>,
             contextLength |-> 4000]
lookupBAB == [id |-> <<"b","/","a","-","b">>, slug |-> <<"a","-","b">>,
              name |-> <<"A"," ","b">>, contextLength |-> 16000]
lookupB == [id |-> <<"b">>, slug |-> <<"b">>, name |-> <<"a",".","b">>,
            contextLength |-> 64000]
lookupAA == [id |-> <<"A","/","a">>, slug |-> <<"a">>, name |-> <<"a","/","b">>,
             contextLength |-> 200000]

LookupCatalog == {lookupAB, lookupBAB, lookupB, lookupAA}

LookupLists == UNION {[1..n -> LookupCatalog] : n \in 0..MaxModels}

QueryAlphabet == {"a", "B", "-", " "}

\* queries with a slash or a dot
PathQueries ==
  {<<"/">>, <<".">>, <<"/", "b">>, <<"a", "/", "B">>, <<"a", ".", "b">>,
   <<"A", "/", "a">>, <<"b", "/", "a", "b">>, <<"B", "/", "A", ".", "B">>,
   <<" ", "b", "/", "a", "-", "b", " ">>}

Queries == PathQueries \cup UNION {[1..n -> QueryAlphabet] : n \in 0..MaxQueryLen}

\* findModel(query, models)
CallFindModel ==
  /\ libCall.op = "idle"
  /\ \E query \in Queries, models \in LookupLists :
       libCall' = [op |-> "findModel",
                   arg |-> [query |-> query, models |-> models],
                   result |-> Ok(findModel(query, models))]
  /\ UNCHANGED <<now, envVars, hookVars, call, libPrev>>

----------------------------------------------------------------------------
(* Specifications *)

\* what a previous visit may have left in the store
PreviousSession == buildRegistry(SortDesc(<<[id |-> <<"a","/","s">>,
                                              slug |-> <<"s">>,
                                              providerId |-> <<"a">>,
                                              contextLength |-> 4000,
                                              sizeTier |-> "tiny"]>>), "api", 0).value

InitialStores ==
  {Null,
   [garbage |-> TRUE],
   JsonStringify([other |-> TRUE]),
   JsonStringify([metadata |-> [expiresAt |-> [text |-> "not a date"]]]),
   JsonStringify(PreviousSession)}

Init ==
  /\ now = 0
  /\ hasWindow \in BOOLEAN
  /\ storage \in {"ok", "blocked", "full"}
  /\ store \in InitialStores
  /\ ~hasWindow => (storage = "ok" /\ store = Null)
  /\ storage = "blocked" => store \in {Null, JsonStringify(PreviousSession)}
  /\ storage = "full" => store \in {Null, [garbage |-> TRUE], JsonStringify(PreviousSession)}
  /\ registry = [i \in Instances |-> Null]
  /\ isLoading = [i \in Instances |-> TRUE]
  /\ error = [i \in Instances |-> Null]
  /\ fetchingRef = [i \in Instances |-> FALSE]
  /\ isStale = [i \in Instances |-> FALSE]
  /\ mounted = [i \in Instances |-> FALSE]
  /\ chains = [i \in Instances |-> {}]
  /\ started = [i \in Instances |-> 0]
  /\ installed = [i \in Instances |-> 0]
  /\ chainResult = [i \in Instances |-> Throw]
  /\ lastLoad = [i \in Instances |-> "none"]
  /\ lateSaw = [i \in Instances |-> 0]
  /\ call = IdleCall
  /\ libCall = IdleLib
  /\ libPrev = Null

\* the hook and its environment
Next ==
  \/ \E i \in Instances : Mount(i)
  \/ \E i \in Instances : Refresh(i)
  \/ \E i \in Instances : ApiSettle(i)
  \/ \E i \in Instances : SnapshotSettle(i)
  \/ Tick

Spec == Init /\ [][Next]_vars

\* a chain of the instance awaits fetchRegistry: ApiSettle(i) can be taken
ApiPending(i) == \E c \in chains[i] : c.stage = "api"

\* a chain of the instance awaits loadFromSnapshot: SnapshotSettle(i) can be
\* taken
SnapshotPending(i) == \E c \in chains[i] : c.stage = "snapshot"

\* the hook when every stage of a chain that was started settles: the awaited
\* promise of each stage resolves or rejects. This is weak fairness of
\* ApiSettle(i) and of SnapshotSettle(i), written out with the condition
\* under which each can be taken: a stage does not stay pending for ever
\* without settling.
SpecLive ==
  /\ Init
  /\ [][Next]_vars
  /\ \A i \in Instances :
       /\ []<>(~ApiPending(i)) \/ []<><<ApiSettle(i)>>_vars
       /\ []<>(~SnapshotPending(i)) \/ []<><<SnapshotSettle(i)>>_vars

\* direct calls of the fetcher
InitFetch ==
  /\ Init
  /\ hasWindow
  /\ storage = "ok"
  /\ store = Null

NextFetch ==
  \/ FetchStart
  \/ FetchApiSettle
  \/ FetchSnapshotSettle
  \/ Tick

SpecFetch == InitFetch /\ [][NextFetch]_vars

\* direct calls of the exported functions
NextLib ==
  \/ CallFetchRegistry
  \/ CallBuildRegistry
  \/ CallGetFallbackRegistry
  \/ LibReturn

SpecLib == InitFetch /\ [][NextLib]_vars

\* direct calls of the normalizer
NextNormalizer ==
  \/ CallTransformModel
  \/ LibReturn

SpecNormalizer == InitFetch /\ [][NextNormalizer]_vars

\* direct calls of the query engine
NextQuery ==
  \/ CallQueryModels
  \/ CallQueryModelsAgain
  \/ LibReturn

SpecQuery == InitFetch /\ [][NextQuery]_vars

\* direct calls of the lookup helper
NextLookup ==
  \/ CallFindModel
  \/ LibReturn

SpecLookup == InitFetch /\ [][NextLookup]_vars

----------------------------------------------------------------------------
(* Properties of the fallback chain, checked under SpecFetch *)

SourceOf(result) == result.value.metadata.source

WellFormedRegistry(reg) ==
  /\ DOMAIN reg = {"metadata", "models", "byId", "byProvider", "byTier"}
  /\ reg.metadata.version = REGISTRY_VERSION
  /\ reg.metadata.source \in Sources
  /\ reg.metadata.modelCount = Len(reg.models)
  /\ ParseDate(reg.metadata.fetchedAt) # InvalidDate
  /\ ParseDate(reg.metadata.expiresAt)
       = ParseDate(reg.metadata.fetchedAt) + CACHE_DURATION_MS
  /\ DOMAIN reg.byTier = Tiers
  /\ \A i \in 1..Len(reg.models) :
       /\ reg.models[i].sizeTier \in Tiers
       /\ reg.models[i].id \in DOMAIN reg.byId
       /\ reg.models[i].providerId \in DOMAIN reg.byProvider

\* C1: whatever the API stage and the snapshot stage do (transport error,
\* non-success status, malformed body, success; load error, invalid shape,
\* success), a finished fetchRegistryWithFallback call has returned a
\* well-formed registry and has not raised.
C1_NeverFails ==
  call.pc = "done" => (call.result.ok /\ WellFormedRegistry(call.result.value))

\* a call in which the API body was not JSON and the snapshot failed to load
C1_Witness ==
  /\ call.pc = "done"
  /\ call.api.outcome = "ok" /\ call.api.body.kind = "unparsable"
  /\ call.snapFailed /\ ~call.snap.loads
  /\ call.result.ok

\* C2: when the API stage threw and the snapshot stage delivered a registry,
\* the returned registry is tagged 'snapshot'; when both failed it is tagged
\* 'fallback' and its model list is not empty.
C2_FallbackOrdering ==
  (call.pc = "done" /\ call.apiFailed) =>
     /\ call.result.ok
     /\ ~call.snapFailed => SourceOf(call.result) = "snapshot"
     /\ call.snapFailed => (SourceOf(call.result) = "fallback"
                             /\ call.result.value.models # <<>>)

\* a call whose API stage threw and whose snapshot stage succeeded
C2_Witness ==
  /\ call.pc = "done"
  /\ call.apiFailed /\ ~call.snapFailed
  /\ SourceOf(call.result) = "snapshot"

\* C3: a success response whose body has no data field, or a data field that
\* is not a list, makes the chain fall through: the returned registry is not
\* tagged 'api'.
C3_ShapeMismatchFallsThrough ==
  (/\ call.pc = "done"
   /\ call.api.outcome = "ok"
   /\ call.api.body.kind = "object"
   /\ ~IsArray(call.api.body.data))
  => (call.result.ok /\ SourceOf(call.result) # "api")

----------------------------------------------------------------------------
(* Properties of the hook, checked under Spec *)

Running(i) == chains[i] # {}

ExpiresAt(reg) == ParseDate(reg.metadata.expiresAt)
FetchedAt(reg) == ParseDate(reg.metadata.fetchedAt)

CacheUsable(t) ==
  /\ hasWindow
  /\ storage # "blocked"
  /\ "json" \in DOMAIN store
  /\ "metadata" \in DOMAIN store.json
  /\ "iso" \in DOMAIN store.json.metadata.expiresAt
  /\ store.json.metadata.expiresAt.iso > t

\* C6: the mount-time (non-forced) load serves the persisted registry and runs
\* no chain exactly when the store holds a parsable registry, which the read
\* delivers, whose expiresAt is strictly later than the current time;
\* otherwise it installs nothing and starts a chain.  A registry installed
\* from the cache is never expired or unreadable.
C6_CacheExpiryValidation ==
  [][\A i \in Instances :
       /\ (~mounted[i] /\ mounted'[i]) =>
            IF CacheUsable(now')
            THEN /\ registry'[i] = store.json
                 /\ ~Running(i)'
                 /\ started' = started
            ELSE /\ registry'[i] = registry[i]
                 /\ Running(i)'
       /\ (registry'[i] # registry[i] /\ lastLoad'[i] = "cache") =>
            CacheUsable(now')]_vars

\* an instance was served, from the cache, the registry that another
\* instance's chain had written
C6_Witness ==
  \E i, j \in Instances :
    /\ i # j
    /\ lastLoad[i] = "cache"
    /\ lastLoad[j] = "chain"
    /\ registry[i] = registry[j]
    /\ started[i] = 0

\* C7: when a chain has run to completion and the store accepts the write,
\* the persisted blob is the serialised registry that was installed; the
\* cache is never older than a registry held in memory.
C7_CacheWrittenAfterRefresh ==
  [][\A i \in Instances :
       /\ (chains'[i] # chains[i] /\ chains'[i] \subseteq chains[i]
           /\ chainResult'[i].ok /\ hasWindow /\ storage = "ok") =>
            /\ store' = JsonStringify(registry'[i])
            /\ JsonParse(store').value = chainResult'[i].value
       /\ (hasWindow /\ storage = "ok" /\ registry'[i] # Null) =>
            /\ JsonParse(store').ok
            /\ FetchedAt(JsonParse(store').value) >= FetchedAt(registry'[i])]_vars

\* a chain has completed and the store holds its registry
C7_Witness ==
  \E i \in Instances :
    /\ lastLoad[i] = "chain"
    /\ ~Running(i)
    /\ hasWindow /\ storage = "ok"
    /\ store = JsonStringify(registry[i])

\* C8: a load whose chain has completed ends with the registry the chain
\* returned, loading false and error null, also when reading the cache raised
\* or gave unparsable text and when writing it raised.
C8_PersistenceFailuresSwallowed ==
  \A i \in Instances :
    (lastLoad[i] = "chain" /\ ~Running(i)) =>
       /\ chainResult[i].ok
       /\ registry[i] = chainResult[i].value
       /\ ~isLoading[i]
       /\ error[i] = Null

\* a load has ended although the store held unparsable text and setItem raises
C8_Witness ==
  \E i \in Instances :
    /\ hasWindow /\ storage = "full" /\ store = [garbage |-> TRUE]
    /\ lastLoad[i] = "chain" /\ ~Running(i)
    /\ registry[i] = chainResult[i].value
    /\ error[i] = Null

\* C9: whenever the current registry's expiresAt is at or before the current
\* time, isStale is true.
C9_StaleWhenExpired ==
  \A i \in Instances :
    (registry[i] # Null /\ DateGe(now, ExpiresAt(registry[i]))) => isStale[i]

\* C10: after a load whose chain skipped a failed stage (the registry is
\* tagged 'snapshot' or 'fallback'), error is not null and the registry is
\* not null.
C10_ErrorDescribesSkippedStage ==
  \A i \in Instances :
    (/\ lastLoad[i] = "chain"
     /\ ~Running(i)
     /\ registry[i] # Null
     /\ registry[i].metadata.source \in {"snapshot", "fallback"})
    => error[i] # Null

----------------------------------------------------------------------------
(* Properties of the exported functions, checked under SpecLib *)

\* C11: when the OpenRouter request fails with a network error or a
\* non-success status, a call of fetchRegistry() still returns a registry
\* and does not raise.
C11_FetchRegistryFallsBack ==
  (/\ libCall.op = "fetchRegistry"
   /\ libCall.arg.outcome \in {"network_error", "http_error"})
  => libCall.result.ok

----------------------------------------------------------------------------
(* Order and indexes of the registries *)

NonIncreasing(models) ==
  \A i, j \in 1..Len(models) :
    i < j => models[i].contextLength >= models[j].contextLength

\* models of equal contextLength stand in out in the order they have in inp
KeepsInputOrder(inp, out) ==
  \A i, j \in 1..Len(out) :
    (i < j /\ out[i].contextLength = out[j].contextLength) =>
      \E a, b \in 1..Len(inp) : a < b /\ inp[a] = out[i] /\ inp[b] = out[j]

\* the model list a finished call handed to buildRegistry, before any sort
StageInput(c) ==
  IF SourceOf(c.result) = "api"
    THEN [k \in 1..Len(c.api.body.data.items) |->
            transformModel(c.api.body.data.items[k]).value]
  ELSE IF SourceOf(c.result) = "snapshot"
    THEN [k \in 1..Len(c.snap.body.data.items) |->
            transformModel(c.snap.body.data.items[k]).value]
  ELSE FALLBACK_MODELS

\* C12: in the registry returned by each stage of the fallback chain (api,
\* snapshot, hardcoded) the models are in non-increasing order of
\* contextLength, and models of equal contextLength keep their input order.
C12_ModelsSortedByContext ==
  call.pc = "done" =>
    /\ NonIncreasing(call.result.value.models)
    /\ KeepsInputOrder(StageInput(call), call.result.value.models)

IndexedModelIsSelf(reg, i) == reg.byId[reg.models[i].id] = reg.models[i]

\* C13 as stated: for every list of raw records, every model of the registry
\* built from it is the object that byId holds under the model's id.
C13_ByIdRoundTrip ==
  (libCall.op = "buildRegistry" /\ libCall.result.ok) =>
    \A i \in 1..Len(libCall.result.value.models) :
      IndexedModelIsSelf(libCall.result.value, i)

\* C13 as amended: byId holds under each id the last model of
\* registry.models that carries the id; a model is the object byId holds
\* under its id exactly when no later model has the same id, so for every
\* list of raw records with pairwise distinct ids every model is.
C13_ByIdHoldsLastOfEachId ==
  (libCall.op = "buildRegistry" /\ libCall.result.ok) =>
    LET reg == libCall.result.value
    IN /\ DOMAIN reg.byId = {reg.models[i].id : i \in 1..Len(reg.models)}
       /\ \A i \in 1..Len(reg.models) :
            IndexedModelIsSelf(reg, i) <=>
              ~\E j \in (i + 1)..Len(reg.models) : reg.models[j].id = reg.models[i].id

\* a registry built from two records with different ids, and one built from
\* two records with the same id, whose second model is the indexed one
C13_Witness ==
  /\ libCall.op = "buildRegistry" /\ libCall.result.ok
  /\ Len(libCall.result.value.models) = 2
  /\ libPrev # Null /\ Len(libPrev.models) = 2
  /\ libPrev.models[1].id # libPrev.models[2].id
  /\ libPrev.byId[libPrev.models[1].id] = libPrev.models[1]
  /\ libCall.result.value.models[1].id = libCall.result.value.models[2].id
  /\ IndexedModelIsSelf(libCall.result.value, 2)
  /\ ~IndexedModelIsSelf(libCall.result.value, 1)

\* C14: the registry a build returns and the registry the caller holds from
\* an earlier build have no model object in common, also when both come from
\* getFallbackRegistry.
C14_NoSharedModelObjects ==
  (/\ libCall.op \in {"buildRegistry", "getFallbackRegistry"}
   /\ libCall.result.ok
   /\ libPrev # Null)
  => ObjectsOf(libCall.result.value) \cap ObjectsOf(libPrev) = {}

----------------------------------------------------------------------------
(* Properties of the normalizer, checked under SpecNormalizer *)

Normalized(c) == libCall.op = "transformModel" /\ libCall.result.ok
                   /\ libCall.arg.context_length = c

\* C15 as stated: a raw record with context_length = 128000 is normalized to
\* sizeTier 'medium', one with context_length = 500000 to 'massive'.
C15_TierBoundariesAsStated ==
  /\ Normalized(128000) => libCall.result.value.sizeTier = "medium"
  /\ Normalized(500000) => libCall.result.value.sizeTier = "massive"

\* C15 as amended: both boundaries are lower-inclusive: context_length =
\* 128000 is normalized to 'large' (127999 is the last 'medium'), and
\* context_length = 500000 to 'massive' (499999 is the last 'large').
C15_TierBoundaries ==
  /\ Normalized(127999) => libCall.result.value.sizeTier = "medium"
  /\ Normalized(128000) => libCall.result.value.sizeTier = "large"
  /\ Normalized(499999) => libCall.result.value.sizeTier = "large"
  /\ Normalized(500000) => libCall.result.value.sizeTier = "massive"

\* a record with context_length = 128000 has been normalized
C15_Witness ==
  /\ Normalized(128000)
  /\ libCall.result.value.sizeTier = "large"
  /\ libCall.result.value.contextLength = 128000

\* s is a decimal numeral: an optional sign, then digits with at most one
\* point among them and at least one digit
IsNumeral(s) ==
  LET body == IF s # <<>> /\ s[1] \in {"-", "+"} THEN Tail(s) ELSE s
  IN /\ \A i \in 1..Len(body) : IsDigit(body[i]) \/ body[i] = "."
     /\ Cardinality({i \in 1..Len(body) : body[i] = "."}) <= 1
     /\ \E i \in 1..Len(body) : IsDigit(body[i])

\* s is a numeral of a value other than zero
NonZeroValue(s) ==
  IsNumeral(s) /\ \E i \in 1..Len(s) : IsDigit(s[i]) /\ s[i] # "0"

\* C17: a raw record with pricing.prompt = "0" and pricing.completion = "0"
\* is normalized to isFree = true, and a record in which either field is the
\* numeral of a nonzero value to isFree = false.
C17_IsFreeIffBothZero ==
  (libCall.op = "transformModel" /\ libCall.result.ok) =>
    LET pricing == libCall.arg.pricing
        isFree == libCall.result.value.pricing.isFree
    IN /\ (pricing.prompt = <<"0">> /\ pricing.completion = <<"0">>) => isFree
       /\ (NonZeroValue(pricing.prompt) \/ NonZeroValue(pricing.completion)) => ~isFree

\* a record with a zero prompt cost and a nonzero completion cost has been
\* normalized
C17_Witness ==
  /\ libCall.op = "transformModel" /\ libCall.result.ok
  /\ libCall.arg.pricing.prompt = <<"0">>
  /\ libCall.arg.pricing.completion = <<".", "1">>
  /\ ~libCall.result.value.pricing.isFree
  /\ libCall.result.value.pricing.promptPerMillion = Zero
  /\ libCall.result.value.pricing.completionPerMillion = Num(100000, 0)

----------------------------------------------------------------------------
(* Size tiers of the returned registries, checked under SpecFetch *)

\* the half-open bins of the size tiers
TierBin(c) ==
  CASE c < 8000 -> "tiny"
    [] 8000 <= c /\ c < 32000 -> "small"
    [] 32000 <= c /\ c < 128000 -> "medium"
    [] 128000 <= c /\ c < 500000 -> "large"
    [] c >= 500000 -> "massive"

\* C16: every model of every registry the fallback chain returns, from the
\* api, snapshot or hardcoded stage, has the sizeTier of the bin its
\* contextLength lies in.
C16_TierMatchesContextBin ==
  call.pc = "done" =>
    \A i \in 1..Len(call.result.value.models) :
      call.result.value.models[i].sizeTier
        = TierBin(call.result.value.models[i].contextLength)

----------------------------------------------------------------------------
(* Properties of the query engine, checked under SpecQuery *)

Queried == libCall.op = "queryModels"

\* a filter is supplied when its option is present; an empty string for
\* provider or search stands for no filter
Supplied(x) == x.kind # "absent" /\ ~(x.kind = "string" /\ x.value = <<>>)

Values(x) == IF x.kind = "list" THEN {x.items[k] : k \in 1..Len(x.items)} ELSE {x.value}

\* the model satisfies every supplied filter of the options
Satisfies(m, options) ==
  /\ Supplied(options.provider) =>
       \E p \in Values(options.provider) :
         toLowerCase(p) \in {toLowerCase(m.provider.id), toLowerCase(m.provider.name)}
  /\ Supplied(options.minContext) => m.contextLength >= options.minContext.value
  /\ Supplied(options.maxContext) => m.contextLength <= options.maxContext.value
  /\ Supplied(options.tier) => m.sizeTier \in Values(options.tier)
  /\ Supplied(options.isFree) => m.pricing.isFree = options.isFree.value
  /\ Supplied(options.supportsImages) =>
       m.capabilities.supportsImages = options.supportsImages.value
  /\ Supplied(options.search) =>
       \E text \in {m.id, m.name, m.provider.name}
                     \cup (IF m.description = Undefined THEN {} ELSE {m.description.value}) :
         includes(toLowerCase(text), toLowerCase(options.search.value))

PassNames == <<"provider", "minContext", "maxContext", "tier", "isFree",
               "supportsImages", "search">>

ApplyPass(name, results, options) ==
  CASE name = "provider" -> providerPass(results, options)
    [] name = "minContext" -> minContextPass(results, options)
    [] name = "maxContext" -> maxContextPass(results, options)
    [] name = "tier" -> tierPass(results, options)
    [] name = "isFree" -> isFreePass(results, options)
    [] name = "supportsImages" -> supportsImagesPass(results, options)
    [] name = "search" -> searchPass(results, options)

RECURSIVE ApplyPasses(_, _, _)
ApplyPasses(order, results, options) ==
  IF order = <<>> THEN results
  ELSE ApplyPasses(Tail(order), ApplyPass(Head(order), results, options), options)

\* the code's order of the passes turned round, and each of its rotations
OtherOrders ==
  {[k \in 1..7 |-> PassNames[8 - k]]}
  \cup {[k \in 1..7 |-> PassNames[((k + r - 1) % 7) + 1]] : r \in 1..6}

\* C18: without sortBy and limit, queryModels returns the models of the input
\* that satisfy every supplied filter (provider, inclusive minContext,
\* inclusive maxContext, tier, isFree, supportsImages, search), in input
\* order, and the passes give the same list in any other order.
C18_FiltersSelectSubsequence ==
  (/\ Queried
   /\ libCall.arg.options.sortBy = Undefined
   /\ libCall.arg.options.limit = Undefined)
  => /\ libCall.result.value
          = SelectSeq(libCall.arg.models,
                      LAMBDA m : Satisfies(m, libCall.arg.options))
     /\ \A order \in OtherOrders :
          ApplyPasses(order, libCall.arg.models, libCall.arg.options)
            = libCall.result.value

\* a query with a provider list, both context bounds at 16000 and a search
\* text has kept the one model on the bounds and dropped another
C18_Witness ==
  /\ Queried
  /\ libCall.arg.options.sortBy = Undefined
  /\ libCall.arg.options.limit = Undefined
  /\ libCall.arg.options.minContext = Number(16000)
  /\ libCall.arg.options.maxContext = Number(16000)
  /\ libCall.arg.options.search = Str(<<"X">>)
  /\ libCall.arg.options.provider = Str(<<"B">>)
  /\ Len(libCall.arg.models) = 2
  /\ libCall.result.value = <<mSmall>>

FilteredAndSorted(models, options) ==
  LET kept == SelectSeq(models, LAMBDA m : Satisfies(m, options))
  IN IF options.sortBy = Undefined THEN kept ELSE sortModels(kept, options)

\* C20: whenever a limit n >= 0 is supplied, queryModels returns the first
\* min(n, k) models of the filtered and sorted list of length k, so never
\* more than n models.
C20_LimitCapsResult ==
  (Queried /\ libCall.arg.options.limit # Undefined
           /\ libCall.arg.options.limit.value >= 0)
  => LET n == libCall.arg.options.limit.value
         list == FilteredAndSorted(libCall.arg.models, libCall.arg.options)
         k == Len(list)
     IN /\ libCall.result.value = SubSeq(list, 1, IF n < k THEN n ELSE k)
        /\ Len(libCall.result.value) <= n

----------------------------------------------------------------------------
(* Properties of the lookup helper, checked under SpecLookup *)

LookedUp == libCall.op = "findModel"

\* the query as the stages compare it
LookupKey == trim(toLowerCase(libCall.arg.query))

\* a text without its hyphens, dots and white space
Squeezed(s) == SelectSeq(s, LAMBDA c : c \notin {"-", ".", " ", "\t", "\n"})

\* some run of consecutive characters of s is the text piece
HasPiece(s, piece) ==
  \E i \in 1..(Len(s) + 1), j \in 0..Len(s) : SubSeq(s, i, j) = piece

\* the model m matches the key q at stage k of the resolution order
MatchesAt(k, m, q) ==
  CASE k = 1 -> toLowerCase(m.id) = q
    [] k = 2 -> toLowerCase(m.slug) = q
    [] k = 3 -> /\ Len(m.id) > Len(q)
               /\ toLowerCase(SubSeq(m.id, Len(m.id) - Len(q), Len(m.id))) = <<"/">> \o q
    [] k = 4 -> HasPiece(toLowerCase(m.name), q)
    [] k = 5 -> \E text \in {m.id, m.slug, m.name} :
                 HasPiece(Squeezed(toLowerCase(text)), Squeezed(q))

\* the earliest stage at which m matches, 6 when it matches at none
StageOf(m, q) ==
  IF \E k \in 1..5 : MatchesAt(k, m, q)
  THEN CHOOSE k \in 1..5 : MatchesAt(k, m, q) /\ \A h \in 1..(k - 1) : ~MatchesAt(h, m, q)
  ELSE 6

\* C21: findModel returns the model whose earliest matching stage (exact
\* identifier, exact slug, identifier ending in '/'+query, name contains
\* query, fuzzy match) is the earliest of the list, whatever the positions
\* of models that match only at later stages, and among the models of that
\* stage the first in list order.
C21_ResolutionOrder ==
  LookedUp =>
    LET stage == [i \in 1..Len(libCall.arg.models) |->
                    StageOf(libCall.arg.models[i], LookupKey)]
    IN \A i \in 1..Len(libCall.arg.models) :
         (/\ stage[i] <= 5
          /\ \A j \in 1..Len(libCall.arg.models) :
               stage[j] > stage[i] \/ (stage[j] = stage[i] /\ j >= i))
         => libCall.result.value = libCall.arg.models[i]

\* the query " B " was looked up in a list whose first model has the name
\* "a.b" and the identifier "b", and whose second has the slug "b": the
\* exact identifier won; and the exact identifier "a/b" in second place has
\* won over a name that contains it in first place
C21_Witness ==
  /\ LookedUp
  /\ \/ /\ libCall.arg.query = <<" ", "B", " ">>
        /\ libCall.arg.models = <<lookupAB, lookupB>>
        /\ libCall.result.value = lookupB
     \/ /\ libCall.arg.query = <<"a", "/", "B">>
        /\ libCall.arg.models = <<lookupAA, lookupAB>>
        /\ libCall.result.value = lookupAB

\* no model of the list matches the key before the fuzzy stage
OnlyFuzzyLeft ==
  \A i \in 1..Len(libCall.arg.models), k \in 1..4 :
    ~MatchesAt(k, libCall.arg.models[i], LookupKey)

\* C22: when no model matches at the exact-identifier, exact-slug,
\* partial-identifier or name-contains stage, findModel returns the first
\* model whose identifier, slug or name, without hyphens, dots and spaces,
\* contains the query without them, and undefined exactly when there is no
\* such model.
C22_FuzzyLookup ==
  (LookedUp /\ OnlyFuzzyLeft) =>
    /\ \A i \in 1..Len(libCall.arg.models) :
         (/\ MatchesAt(5, libCall.arg.models[i], LookupKey)
          /\ \A j \in 1..(i - 1) : ~MatchesAt(5, libCall.arg.models[j], LookupKey))
         => libCall.result.value = libCall.arg.models[i]
    /\ (libCall.result.value = Undefined)
         <=> (\A i \in 1..Len(libCall.arg.models) :
                ~MatchesAt(5, libCall.arg.models[i], LookupKey))

\* the query "ab" has found the identifier "b/a-b" in second place by the
\* fuzzy pass
C22_Witness ==
  /\ LookedUp /\ OnlyFuzzyLeft
  /\ libCall.arg.query = <<"a", "B">>
  /\ libCall.arg.models = <<lookupAB, lookupBAB>>
  /\ libCall.result.value = lookupBAB

----------------------------------------------------------------------------
(* Order of the stages of one call, checked under SpecFetch *)

\* C23: within one fetchRegistryWithFallback call the stages are strictly
\* sequential: the API stage is entered only when the call starts, the
\* snapshot stage only from the API stage and with that stage failed, the
\* hardcoded list is returned only from the snapshot stage with both earlier
\* stages failed, and no step of a call goes back to a stage already
\* attempted.
C23_StagesSequential ==
  [][/\ (call'.pc = "api" /\ call.pc # "api") => call.pc \in {"idle", "done"}
     /\ (call'.pc = "snapshot" /\ call.pc # "snapshot") =>
          /\ call.pc = "api"
          /\ call'.apiFailed
          /\ ~fetchRegistry(call'.api, now).ok
          /\ call'.snap = Null
     /\ (call'.pc = "done" /\ call.pc # "done") =>
          /\ call.pc \in {"api", "snapshot"}
          /\ call.pc = "api" => (call'.snap = Null /\ SourceOf(call'.result) = "api")
          /\ SourceOf(call'.result) = "snapshot" => (call.pc = "snapshot" /\ call.apiFailed)
          /\ SourceOf(call'.result) = "fallback" =>
               (call.pc = "snapshot" /\ call.apiFailed /\ call'.snapFailed)
     /\ call.pc = "snapshot" => call'.pc \in {"snapshot", "done"}
     /\ call.pc = "api" => (call'.pc = "api" => call' = call)
    ]_vars

\* a call that went through all three stages: the API stage failed, then the
\* snapshot stage failed, then the hardcoded list was returned
C23_Witness ==
  /\ call.pc = "done"
  /\ call.apiFailed /\ call.snapFailed
  /\ call.api # Null /\ call.snap # Null
  /\ SourceOf(call.result) = "fallback"

\* C24: for every JSON object payload (data field missing, present but not
\* a list, a list, the empty list included), the snapshot stage handed the
\* payload fails exactly when the API stage handed the same payload in a
\* success response fails.
C24_SnapshotValidatesLikeApi ==
  (/\ call.pc \in {"snapshot", "done"}
   /\ call.api.outcome = "ok"
   /\ call.api.body.kind = "object")
  => (call.apiFailed
        <=> loadFromSnapshot([loads |-> TRUE, body |-> call.api.body], now).value = Null)

----------------------------------------------------------------------------
(* The tier index, checked under SpecLib *)

Built ==
  /\ libCall.op \in {"fetchRegistry", "buildRegistry", "getFallbackRegistry"}
  /\ libCall.result.ok

\* the number of models of the same tier as models[i] among models[1..i]
RankInTier(models, i) ==
  Cardinality({j \in 1..i : models[j].sizeTier = models[i].sizeTier})

\* C25: byTier of every registry has exactly the keys tiny, small, medium,
\* large and massive; every model of registry.models stands in the bucket of
\* its sizeTier, at the place it has among the models of that tier in
\* registry.models, and the buckets hold nothing else.
C25_TierIndex ==
  Built =>
    /\ DOMAIN libCall.result.value.byTier = {"tiny", "small", "medium", "large", "massive"}
    /\ \A i \in 1..Len(libCall.result.value.models) :
         /\ RankInTier(libCall.result.value.models, i)
               <= Len(libCall.result.value.byTier[libCall.result.value.models[i].sizeTier])
         /\ libCall.result.value.byTier[libCall.result.value.models[i].sizeTier]
               [RankInTier(libCall.result.value.models, i)]
              = libCall.result.value.models[i]
    /\ \A tier \in DOMAIN libCall.result.value.byTier :
         Len(libCall.result.value.byTier[tier])
           = Cardinality({i \in 1..Len(libCall.result.value.models) :
                            libCall.result.value.models[i].sizeTier = tier})

\* a registry built from two records of the tier 'large': the bucket holds
\* both in the order of registry.models and the other four buckets are empty
C25_Witness ==
  /\ libCall.op = "buildRegistry" /\ libCall.result.ok
  /\ Len(libCall.result.value.models) = 2
  /\ libCall.result.value.models[1] # libCall.result.value.models[2]
  /\ libCall.result.value.byTier["large"] = libCall.result.value.models
  /\ libCall.result.value.byTier["tiny"] = <<>>
  /\ libCall.result.value.byTier["massive"] = <<>>

----------------------------------------------------------------------------
(* The identifier split, checked under SpecNormalizer *)

HasSlash(id) == \E i \in 1..Len(id) : id[i] = "/"

FirstSlash(id) ==
  CHOOSE i \in 1..Len(id) : id[i] = "/" /\ \A j \in 1..(i - 1) : id[j] # "/"

\* C26: for an identifier that contains '/', the model's provider id is the
\* text before the first '/' and its slug the text after it; for an
\* identifier without '/', the provider id is 'unknown' and the slug is the
\* whole identifier.
C26_IdentifierSplit ==
  (libCall.op = "transformModel" /\ libCall.result.ok) =>
    IF HasSlash(libCall.arg.id)
    THEN /\ libCall.result.value.providerId
              = SubSeq(libCall.arg.id, 1, FirstSlash(libCall.arg.id) - 1)
         /\ libCall.result.value.slug
              = SubSeq(libCall.arg.id, FirstSlash(libCall.arg.id) + 1, Len(libCall.arg.id))
    ELSE /\ libCall.result.value.providerId = <<"u", "n", "k", "n", "o", "w", "n">>
         /\ libCall.result.value.slug = libCall.arg.id

----------------------------------------------------------------------------
(* Totality of the normalizer, checked under SpecNormalizer *)

\* C27: for every raw record whose pricing.prompt and pricing.completion are
\* present, whatever its optional fields (architecture, top_provider,
\* supported_parameters, default_parameters, per_request_limits, created)
\* hold, transformModel returns a model and does not raise.
C27_TransformModelTotal ==
  (/\ libCall.op = "transformModel"
   /\ libCall.arg.wellFormed
   /\ libCall.arg.pricing # Null)
  => libCall.result.ok

----------------------------------------------------------------------------
(* What a consumer of the hook observes, checked under Spec *)

\* C28: in every reachable state of every hook instance, isLoading = false
\* implies that the current registry is not null.
C28_LoadedMeansRegistry ==
  \A i \in Instances : ~isLoading[i] => registry[i] # Null

\* one instance is done loading with the registry of its chain while the
\* other is done loading with the registry it found in the cache
C28_Witness ==
  \E i, j \in Instances :
    /\ ~isLoading[i] /\ registry[i] # Null /\ lastLoad[i] = "chain"
    /\ ~isLoading[j] /\ registry[j] # Null /\ lastLoad[j] = "cache"

\* the registry did not come from the API
Degraded(reg) ==
  /\ "source" \in DOMAIN reg.metadata
  /\ reg.metadata.source \in {"snapshot", "fallback"}

\* the store holds the text of a registry that did not come from the API
DegradedInStore ==
  /\ JsonParse(store).ok
  /\ "metadata" \in DOMAIN JsonParse(store).value
  /\ Degraded(JsonParse(store).value)

\* C29: when a chain ends with a registry tagged 'snapshot' or 'fallback'
\* and the store accepts the write, the registry is persisted with an expiry
\* 24 hours after its fetch time, as an 'api' registry is; and a non-forced
\* load that finds such a registry in the store before that expiry installs
\* it and starts no chain.
C29_DegradedRegistryCached ==
  [][\A i \in Instances :
       /\ (/\ chains'[i] # chains[i] /\ chains'[i] \subseteq chains[i]
           /\ chainResult'[i].ok /\ Degraded(chainResult'[i].value)
           /\ hasWindow /\ storage = "ok") =>
            /\ JsonParse(store').ok
            /\ JsonParse(store').value = chainResult'[i].value
            /\ ExpiresAt(JsonParse(store').value)
                 = FetchedAt(JsonParse(store').value) + 24 * 60 * 60 * 1000
       /\ (/\ ~mounted[i] /\ mounted'[i]
           /\ hasWindow /\ storage # "blocked"
           /\ DegradedInStore
           /\ DateLt(now', ExpiresAt(JsonParse(store).value))) =>
            /\ registry'[i] = JsonParse(store).value
            /\ ~isLoading'[i]
            /\ chains'[i] = chains[i]
            /\ started'[i] = started[i]]_vars

\* an instance that never started a chain holds a 'snapshot' or 'fallback'
\* registry it was served from the cache, which the chain of the other
\* instance had persisted
C29_Witness ==
  \E i, j \in Instances :
    /\ lastLoad[j] = "chain" /\ Degraded(registry[j])
    /\ lastLoad[i] = "cache" /\ started[i] = 0
    /\ registry[i] = registry[j]
    /\ store = JsonStringify(registry[i])

----------------------------------------------------------------------------
(* Progress of the hook, checked under SpecLive *)

\* C30: when every stage of every chain settles, a mounted instance
\* eventually has isLoading = false with a registry that is not null, and
\* an instance whose in-flight guard is set eventually has it released with
\* no chain left in flight, so that a later refresh is not turned away.
C30_EventuallyLoadedAndReleased ==
  \A i \in Instances :
    /\ mounted[i] ~> (~isLoading[i] /\ registry[i] # Null)
    /\ fetchingRef[i] ~> (~fetchingRef[i] /\ chains[i] = {})

\* an instance has run two chains one after the other: the refresh that
\* started the second found the guard released; it is done loading and holds
\* a registry
C30_Witness ==
  \E i \in Instances :
    /\ started[i] = 2 /\ installed[i] = 2
    /\ ~fetchingRef[i] /\ chains[i] = {}
    /\ ~isLoading[i] /\ registry[i] # Null

====
